---- MODULE Spec2Model ----
(***************************************************************************)
(* Model of the analytics aggregation engine of the chat endpoint          *)
(* (src/src/app/api/chat/route.ts), of the rest of its handler, of the     *)
(* upload of OrdersTool (src/src/components/OrdersTool.tsx) and of the     *)
(* question handler of the chat page (src/src/app/chat/page.tsx).          *)
(*                                                                         *)
(* Strings are sequences of one-character strings, so that trim() and the  *)
(* truthiness test of JavaScript (non-empty) are computed, not assumed.    *)
(* An order date string is a record that names its format and the fields   *)
(* written in it; new Date(s) is computed from them into an instant        *)
(* (hours since 1970-01-01T00:00Z), and the calendar getters convert the   *)
(* instant back with the civil-calendar algorithm.                         *)
(* A Map is the sequence of its entries in insertion order, a Set is a set.*)
(***************************************************************************)
EXTENDS Integers, Sequences, FiniteSets, TLC

\* one chat request in the handler POST of the chat endpoint
VARIABLES body, status, orders, tz, call, result, other

\* the rest of the chat request: what the client sent with it, what is
\* forwarded to the language model, what comes back and what is answered
VARIABLES message, chatHistory, messages, aiResponse, response

\* the component OrdersTool: its state, the running upload and the table
VARIABLES toolOrders, loading, dataRange, startRow, endRow, uploading, toolError,
          success, upload, inserted

\* the component ChatPage: its state and the chat request it waits for
VARIABLES pageMessages, isLoading, currentChatId, request

engineVars == <<body, status, orders, tz, call, result, other>>

chatVars == <<message, chatHistory, messages, aiResponse, response>>

toolVars == <<toolOrders, loading, dataRange, startRow, endRow, uploading, toolError,
              success, upload, inserted>>

pageVars == <<pageMessages, isLoading, currentChatId, request>>

vars == <<engineVars, chatVars, toolVars, pageVars>>

(* ------------------------------ bounds ------------------------------- *)

\* longest record list over the categorical record domain
MaxOrders == 3

\* longest record list over the dated record domain
MaxTimeOrders == 2

\* length of the longest list of records with pairwise distinct categories
MaxWide == 21

\* longest record list over the cross-dimensional record domain
MaxCrossOrders == 2

\* longest array of rows of either format in a request body
MaxRawRows == 2

(* --------------------------- program constants ------------------------ *)

TopAttributes == 20

TopMarketplaces == 10

TopCountries == 10

TopProducts == 15

ProductBreakdownLimit == 20

AttributeBreakdownLimit == 20

DetailLimit == 5

(* ------------------------------ strings ------------------------------- *)

EmptyStr == <<>>

Str(c) == <<c>>

Pad(s) == <<" ">> \o s

IsSpace(c) == c = " "

RECURSIVE TrimStart(_)
TrimStart(s) ==
  IF s = <<>> THEN s
  ELSE IF IsSpace(Head(s)) THEN TrimStart(Tail(s)) ELSE s

RECURSIVE TrimEnd(_)
TrimEnd(s) ==
  IF s = <<>> THEN s
  ELSE IF IsSpace(s[Len(s)]) THEN TrimEnd(SubSeq(s, 1, Len(s) - 1)) ELSE s

\* String.prototype.trim
Trim(s) == TrimEnd(TrimStart(s))

\* JavaScript truthiness of a string: the empty string alone is falsy
Truthy(s) == s # <<>>

(* ------------------------------ calendar ------------------------------ *)

\* days since 1970-01-01 of the civil date y-m-d (proleptic Gregorian)
DaysFromCivil(y, m, d) ==
  LET yy  == IF m <= 2 THEN y - 1 ELSE y
      era == yy \div 400
      yoe == yy - era * 400
      mp  == IF m > 2 THEN m - 3 ELSE m + 9
      doy == (153 * mp + 2) \div 5 + d - 1
      doe == yoe * 365 + yoe \div 4 - yoe \div 100 + doy
  IN  era * 146097 + doe - 719468

\* the civil date <<y, m, d>> of a day number
CivilFromDays(z) ==
  LET zz  == z + 719468
      era == zz \div 146097
      doe == zz - era * 146097
      yoe == (doe - doe \div 1460 + doe \div 36524 - doe \div 146096) \div 365
      doy == doe - (365 * yoe + yoe \div 4 - yoe \div 100)
      mp  == (5 * doy + 2) \div 153
      d   == doy - (153 * mp + 2) \div 5 + 1
      m   == IF mp < 10 THEN mp + 3 ELSE mp - 9
      y   == yoe + era * 400 + (IF m <= 2 THEN 1 ELSE 0)
  IN  <<y, m, d>>

(* ---------------------------- date strings ---------------------------- *)

\* ""
DateEmpty == [fmt |-> "empty", y |-> 0, m |-> 0, d |-> 0, h |-> 0, off |-> 0]

\* "   "
DateBlank == [fmt |-> "blank", y |-> 0, m |-> 0, d |-> 0, h |-> 0, off |-> 0]

\* "not-a-date"
DateGarbage == [fmt |-> "garbage", y |-> 0, m |-> 0, d |-> 0, h |-> 0, off |-> 0]

\* "YYYY-MM-DD"
DateOnly(y, m, d) == [fmt |-> "date", y |-> y, m |-> m, d |-> d, h |-> 0, off |-> 0]

\* "YYYY-MM-DDTHH:00:00+OO:00"
DateOffset(y, m, d, h, off) ==
  [fmt |-> "offset", y |-> y, m |-> m, d |-> d, h |-> h, off |-> off]

\* order.order_date && order.order_date.trim() !== ''
DatePresent(s) == s.fmt # "empty" /\ s.fmt # "blank"

\* NewDate with an unparsable string read as the epoch instead of an Invalid Date
NewDate_GarbageAsEpoch(s) ==
  IF s.fmt = "date"
    THEN [valid |-> TRUE, t |-> DaysFromCivil(s.y, s.m, s.d) * 24]
  ELSE IF s.fmt = "offset"
    THEN [valid |-> TRUE, t |-> DaysFromCivil(s.y, s.m, s.d) * 24 + s.h - s.off]
  ELSE [valid |-> TRUE, t |-> 0]

\* new Date(s): a date-only ISO string is UTC midnight, a date-time with an
\* offset is that instant, anything else is an Invalid Date (getTime() NaN)
NewDate(s) ==
  IF s.fmt = "date"
    THEN [valid |-> TRUE, t |-> DaysFromCivil(s.y, s.m, s.d) * 24]
  ELSE IF s.fmt = "offset"
    THEN [valid |-> TRUE, t |-> DaysFromCivil(s.y, s.m, s.d) * 24 + s.h - s.off]
  ELSE [valid |-> FALSE, t |-> 0]

\* getFullYear / getMonth()+1 / getDate: the calendar date in the host's zone
LocalCivil(t, zone) == CivilFromDays((t + zone) \div 24)

\* toISOString().split('T')[0]: the calendar date in UTC
UTCCivil(t) == CivilFromDays(t \div 24)

\* `${getFullYear()}-${padStart(getMonth()+1)}`
MonthKeyOf(t, zone) == <<LocalCivil(t, zone)[1], LocalCivil(t, zone)[2]>>

\* `${getFullYear()}-${padStart(getMonth()+1)}-${padStart(getDate())}`
DailyKeyOf(t, zone) == LocalCivil(t, zone)

\* String(n) of a non-negative integer, as the sequence of its digits
RECURSIVE Digits(_)
Digits(n) == IF n < 10 THEN <<n>> ELSE Append(Digits(n \div 10), n % 10)

\* String(n).padStart(2, '0') of a month or a day
Pad2(n) == IF n < 10 THEN <<0, n>> ELSE Digits(n)

\* the collation weight of '-', which sorts before every digit
Hyphen == -1

\* the key as the template literal writes it: the year as getFullYear() prints
\* it (no padding), then '-' and two digits for the month (and for the day)
KeyString(key) ==
  Digits(key[1]) \o <<Hyphen>> \o Pad2(key[2])
    \o (IF Len(key) = 3 THEN <<Hyphen>> \o Pad2(key[3]) ELSE <<>>)

\* s sorts before t, character by character; a proper prefix sorts first
RECURSIVE LexLess(_, _)
LexLess(s, t) ==
  IF t = <<>> THEN FALSE
  ELSE IF s = <<>> THEN TRUE
  ELSE IF Head(s) # Head(t) THEN Head(s) < Head(t)
  ELSE LexLess(Tail(s), Tail(t))

\* a[0].localeCompare(b[0]) < 0: the keys are compared as strings
KeyLess(a, b) == LexLess(KeyString(a), KeyString(b))

\* new Date(parseInt(year), parseInt(month) - 1) and the month it is named by
MonthNameOf(key, zone) ==
  LET t == DaysFromCivil(key[1], key[2], 1) * 24 - zone
  IN  LocalCivil(t, zone)[2]

(* ------------------------------ records ------------------------------- *)

\* NormalizedOrderData (the fields the aggregators read)
Order(id, qty, date, product, attr, mp, country) ==
  [order_id |-> id, item_quantity |-> qty, order_date |-> date,
   variation_name |-> product, attribute |-> attr, marketplace |-> mp,
   delivery_country |-> country]

(* --------------------------- Map and Array --------------------------- *)

RECURSIVE SeqSum(_)
SeqSum(s) == IF s = <<>> THEN 0 ELSE Head(s) + SeqSum(Tail(s))

MapKeys(m) == {m[i].k : i \in 1..Len(m)}

MapHas(m, key) == \E i \in 1..Len(m) : m[i].k = key

MapIndex(m, key) == CHOOSE i \in 1..Len(m) : m[i].k = key

\* Map.prototype.get (callers supply the `|| default`)
MapGet(m, key, default) == IF MapHas(m, key) THEN m[MapIndex(m, key)].v ELSE default

\* Map.prototype.set: a new key is appended, an old key keeps its position
MapSet(m, key, val) ==
  IF MapHas(m, key)
    THEN [m EXCEPT ![MapIndex(m, key)] = [k |-> key, v |-> val]]
    ELSE Append(m, [k |-> key, v |-> val])

\* Array.prototype.slice(0, n)
Slice(s, n) == SubSeq(s, 1, IF Len(s) < n THEN Len(s) ELSE n)

\* (a, b) => b[1].items - a[1].items
MoreItems(a, b) == a.v.items > b.v.items

\* (a, b) => b[1] - a[1]
MoreValue(a, b) == a.v > b.v

\* (a, b) => a[0].localeCompare(b[0])
EarlierKey(a, b) == KeyLess(a.k, b.k)

\* (a, b) => b[1].quantity - a[1].quantity
MoreQuantity(a, b) == a.v.quantity > b.v.quantity

\* Array.from(m.values()).reduce((sum, data) => sum + data.quantity, 0)
InnerTotal(m) == SeqSum([i \in 1..Len(m) |-> m[i].v.quantity])

\* (a, b) => bTotal - aTotal, the totals of the inner maps
MoreTotal(a, b) == InnerTotal(a.v) > InnerTotal(b.v)

\* the comparator `cmp` is negative for (a, b)
Before(cmp, a, b) ==
  CASE cmp = "MoreItems" -> MoreItems(a, b)
    [] cmp = "MoreValue" -> MoreValue(a, b)
    [] cmp = "EarlierKey" -> EarlierKey(a, b)
    [] cmp = "MoreQuantity" -> MoreQuantity(a, b)
    [] cmp = "MoreTotal" -> MoreTotal(a, b)

\* SortBy with elements that compare equal emitted in reverse encounter order
SortBy_TiesReversed(s, cmp) ==
  LET rank(i) == 1 + Cardinality({j \in 1..Len(s) :
                       \/ Before(cmp, s[j], s[i])
                       \/ ~Before(cmp, s[i], s[j]) /\ j > i})
  IN  [p \in 1..Len(s) |-> s[CHOOSE i \in 1..Len(s) : rank(i) = p]]

\* Array.prototype.sort with the comparator cmp: the sort is stable, so an
\* element is preceded by the elements that come before it and by the earlier
\* elements that compare equal to it
SortBy(s, cmp) ==
  LET rank(i) == 1 + Cardinality({j \in 1..Len(s) :
                       \/ Before(cmp, s[j], s[i])
                       \/ ~Before(cmp, s[i], s[j]) /\ j < i})
  IN  [p \in 1..Len(s) |-> s[CHOOSE i \in 1..Len(s) : rank(i) = p]]

(* --------------------- single-dimension breakdowns -------------------- *)

\* the forEach loop of the four breakdowns: a record whose field is truthy
\* adds one row and its quantity to the entry of the trimmed field
RECURSIVE GroupByField(_, _, _)
GroupByField(os, field, acc) ==
  IF os = <<>> THEN acc
  ELSE LET order == Head(os)
           key == Trim(order[field])
           current == MapGet(acc, key, [count |-> 0, items |-> 0])
           next == IF Truthy(order[field])
                     THEN MapSet(acc, key, [count |-> current.count + 1,
                                            items |-> current.items + order.item_quantity])
                     ELSE acc
       IN  GroupByField(Tail(os), field, next)

\* SumByField with the quantity stored instead of added to the entry
RECURSIVE SumByField_Overwrite(_, _, _)
SumByField_Overwrite(os, field, acc) ==
  IF os = <<>> THEN acc
  ELSE LET order == Head(os)
           key == Trim(order[field])
           next == IF Truthy(order[field])
                     THEN MapSet(acc, key, order.item_quantity)
                     ELSE acc
       IN  SumByField_Overwrite(Tail(os), field, next)

\* the forEach loop of the product and attribute breakdowns (Map<string, number>)
RECURSIVE SumByField(_, _, _)
SumByField(os, field, acc) ==
  IF os = <<>> THEN acc
  ELSE LET order == Head(os)
           key == Trim(order[field])
           next == IF Truthy(order[field])
                     THEN MapSet(acc, key, MapGet(acc, key, 0) + order.item_quantity)
                     ELSE acc
       IN  SumByField(Tail(os), field, next)

calculateMarketplaceBreakdown(os) ==
  SortBy(GroupByField(os, "marketplace", <<>>), "MoreItems")

\* calculateCountryBreakdown with a Map that outlives the call: the second
\* application adds the records to the groups of the first
calculateCountryBreakdown_KeepsMap(os) ==
  SortBy(GroupByField(os, "delivery_country",
                      IF call = "calculateCountryBreakdown" THEN result ELSE <<>>),
         "MoreItems")

calculateCountryBreakdown(os) ==
  SortBy(GroupByField(os, "delivery_country", <<>>), "MoreItems")

calculateProductBreakdown(os) ==
  Slice(SortBy(SumByField(os, "variation_name", <<>>), "MoreValue"), ProductBreakdownLimit)

calculateAttributeBreakdown(os) ==
  Slice(SortBy(SumByField(os, "attribute", <<>>), "MoreValue"), AttributeBreakdownLimit)

(* ------------------------- temporal aggregation ----------------------- *)

\* the forEach loop of calculateMonthlyBreakdown
RECURSIVE monthlyData(_, _, _)
monthlyData(os, zone, acc) ==
  IF os = <<>> THEN acc
  ELSE LET order == Head(os)
           date == NewDate(order.order_date)
           monthKey == MonthKeyOf(date.t, zone)
           monthly == MapGet(acc, monthKey, [uniqueIds |-> {}, items |-> 0])
           ids == IF Truthy(order.order_id) /\ Trim(order.order_id) # EmptyStr
                    THEN monthly.uniqueIds \cup {Trim(order.order_id)}
                    ELSE monthly.uniqueIds
           next == IF DatePresent(order.order_date) /\ date.valid
                     THEN MapSet(acc, monthKey,
                                 [uniqueIds |-> ids,
                                  items |-> monthly.items + order.item_quantity])
                     ELSE acc
       IN  monthlyData(Tail(os), zone, next)

\* one line per month: `${monthName} ${year}: ${uniqueIds.size} orders (${items} items)`
calculateMonthlyBreakdown(os, zone) ==
  LET sorted == SortBy(monthlyData(os, zone, <<>>), "EarlierKey")
  IN  [i \in 1..Len(sorted) |->
         [monthName |-> MonthNameOf(sorted[i].k, zone),
          year |-> sorted[i].k[1],
          orders |-> Cardinality(sorted[i].v.uniqueIds),
          items |-> sorted[i].v.items]]

NA == <<"N", "/", "A">>

\* the forEach loop of calculateSpecificDate: acc is [results, countries]
RECURSIVE specificDateScan(_, _, _)
specificDateScan(os, targetDate, acc) ==
  IF os = <<>> THEN acc
  ELSE LET order == Head(os)
           date == NewDate(order.order_date)
           dateStr == UTCCivil(date.t)
           next == IF /\ DatePresent(order.order_date)
                      /\ date.valid
                      /\ dateStr = targetDate
                      /\ Truthy(order.delivery_country)
                     THEN [countries |-> acc.countries \cup {order.delivery_country},
                           results |-> Append(acc.results,
                             [orderId |-> IF Truthy(order.order_id)
                                            THEN order.order_id ELSE NA,
                              country |-> order.delivery_country,
                              marketplace |-> IF Truthy(order.marketplace)
                                                THEN order.marketplace ELSE NA])]
                     ELSE acc
       IN  specificDateScan(Tail(os), targetDate, next)

\* found = FALSE is the text `No orders found for ${targetDate}`
calculateSpecificDate(os, targetDate) ==
  LET scan == specificDateScan(os, targetDate, [countries |-> {}, results |-> <<>>])
      shown == Slice(scan.results, DetailLimit)
  IN  IF Len(scan.results) = 0
        THEN [found |-> FALSE, target |-> targetDate, countries |-> {},
              total |-> 0, details |-> <<>>, more |-> FALSE]
        ELSE [found |-> TRUE, target |-> targetDate, countries |-> scan.countries,
              total |-> Len(scan.results),
              details |-> [i \in 1..Len(shown) |->
                             [orderId |-> shown[i].orderId, country |-> shown[i].country]],
              more |-> Len(scan.results) > DetailLimit]

(* ------------------------------ numbers ------------------------------- *)

Min(S) == CHOOSE x \in S : \A y \in S : x <= y

Max(S) == CHOOSE x \in S : \A y \in S : x >= y

NaN == [kind |-> "NaN", v |-> 0]

Infinity == [kind |-> "Infinity", v |-> 0]

Number(n) == [kind |-> "number", v |-> n]

\* Math.round(x) of the non-negative fraction num / den
RoundDiv(num, den) == (2 * num + den) \div (2 * den)

Abs(n) == IF n < 0 THEN -n ELSE n

\* toFixed of the fraction num / den scaled to an integer: the magnitude is
\* rounded half up and keeps the sign of the fraction
FixedDiv(num, den) ==
  IF (num < 0) = (den < 0)
    THEN RoundDiv(Abs(num), Abs(den))
    ELSE -RoundDiv(Abs(num), Abs(den))

\* ((part / total) * 100).toFixed(1), in tenths of a percent
PercentFixed1(part, total) ==
  IF total = 0
    THEN IF part = 0 THEN NaN ELSE Infinity
    ELSE Number(FixedDiv(part * 1000, total))

\* (num / den).toFixed(2), in hundredths
Fixed2(num, den) ==
  IF den = 0
    THEN IF num = 0 THEN NaN ELSE Infinity
    ELSE Number(FixedDiv(num * 100, den))

\* Math.round(Math.sqrt(num / (den * den)) * 100): the r with r - 1/2 <= x < r + 1/2
\* for x = 100 * sqrt(num) / den, which is at most hi
RoundSqrt100(num, den, hi) ==
  CHOOSE r \in 0..hi :
    /\ 2 * r - 1 <= 0 \/ (2 * r - 1) * (2 * r - 1) * den * den <= 40000 * num
    /\ 40000 * num < (2 * r + 1) * (2 * r + 1) * den * den

RECURSIVE SumSquares(_)
SumSquares(s) == IF s = <<>> THEN 0 ELSE Head(s) * Head(s) + SumSquares(Tail(s))

\* calculateStandardDeviation with the sample variance, sum((v - mean)^2) / (n - 1)
calculateStandardDeviation_Sample(values) ==
  LET n == Len(values)
      total == SeqSum(values)
      dev == n * SumSquares(values) - total * total
      spread == Max({values[i] : i \in 1..Len(values)})
                  - Min({values[i] : i \in 1..Len(values)})
  IN  IF n = 0
        THEN [mean |-> NaN, stdDev |-> NaN]
        ELSE [mean |-> Number(RoundDiv(total * 100, n)),
              stdDev |-> IF n = 1 THEN NaN
                         ELSE Number(RoundSqrt100(dev * n * (n - 1), n * (n - 1),
                                                  200 * spread))]

\* mean and stdDev in hundredths; variance = sum((v - mean)^2) / n
\*   = (n * sum(v^2) - sum(v)^2) / n^2
calculateStandardDeviation(values) ==
  LET n == Len(values)
      total == SeqSum(values)
      dev == n * SumSquares(values) - total * total
      spread == Max({values[i] : i \in 1..Len(values)})
                  - Min({values[i] : i \in 1..Len(values)})
  IN  IF n = 0
        THEN [mean |-> NaN, stdDev |-> NaN]
        ELSE [mean |-> Number(RoundDiv(total * 100, n)),
              stdDev |-> Number(RoundSqrt100(dev, n, 100 * spread))]

(* ------------------------- rows of a request -------------------------- *)

\* JavaScript values of a JSON body: a property that is absent reads as
\* undefined; a string is written as the aggregators read it (a sequence of
\* characters, or a date string); a number carries its value
Undef == [t |-> "undefined"]

StrV(s) == [t |-> "string", s |-> s]

NumV(n) == [t |-> "number", n |-> n]

\* a number where the normalized record is declared to hold a string: it is
\* truthy and has no string method
NumberValue == <<"number">>

\* a number where the normalized record is declared to hold a date string
DateNumber == [fmt |-> "number", y |-> 0, m |-> 0, d |-> 0, h |-> 0, off |-> 0]

\* the value is truthy, for the operator || (text and date strings)
TruthyText(v) ==
  CASE v.t = "string" -> v.s # EmptyStr
    [] v.t = "number" -> v.n # 0
    [] OTHER -> FALSE

TruthyDate(v) ==
  CASE v.t = "string" -> v.s.fmt # "empty"
    [] v.t = "number" -> v.n # 0
    [] OTHER -> FALSE

\* a || b || '' for a field declared a string
OrText(a, b) ==
  LET v == IF TruthyText(a) THEN a ELSE IF TruthyText(b) THEN b ELSE StrV(EmptyStr)
  IN  IF v.t = "string" THEN v.s ELSE NumberValue

\* a || b || '' for the order date
OrDate(a, b) ==
  LET v == IF TruthyDate(a) THEN a ELSE IF TruthyDate(b) THEN b ELSE StrV(DateEmpty)
  IN  IF v.t = "string" THEN v.s ELSE DateNumber

DigitChars == <<"0", "1", "2", "3", "4", "5", "6", "7", "8", "9">>

IsDigit(c) == \E i \in 1..Len(DigitChars) : DigitChars[i] = c

DigitValue(c) == (CHOOSE i \in 1..Len(DigitChars) : DigitChars[i] = c) - 1

\* the number written by the longest prefix of digits; any = FALSE when none
RECURSIVE LeadingDigits(_, _)
LeadingDigits(s, acc) ==
  IF s = <<>> \/ ~IsDigit(Head(s)) THEN acc
  ELSE LeadingDigits(Tail(s), [any |-> TRUE, n |-> acc.n * 10 + DigitValue(Head(s))])

\* parseInt(s): leading white space, an optional sign, then the digits; NaN
\* when no digit follows
ParseInt(s) ==
  LET t == TrimStart(s)
      negative == t # <<>> /\ Head(t) = "-"
      signed == t # <<>> /\ (Head(t) = "-" \/ Head(t) = "+")
      parsed == LeadingDigits(IF signed THEN Tail(t) ELSE t, [any |-> FALSE, n |-> 0])
  IN  IF ~parsed.any THEN NaN
      ELSE Number(IF negative THEN -parsed.n ELSE parsed.n)

\* order.item_quantity || parseInt(order['Item Quantity'] || '0') || 0
NormalQuantity(quantity, csvQuantity) ==
  IF quantity.t = "number" /\ quantity.n # 0 THEN quantity.n
  ELSE LET text == IF TruthyText(csvQuantity) THEN csvQuantity ELSE StrV(<<"0">>)
           parsed == IF text.t = "number" THEN Number(text.n) ELSE ParseInt(text.s)
       IN  IF parsed.kind = "number" THEN parsed.v ELSE 0

\* a row that is an object, with the properties the normalizer reads
Row(f) == [t |-> "object", f |-> f]

\* a row that is a number: every property of it reads as undefined
NumberRow == [t |-> "number", f |-> <<>>]

\* a row that is null: reading a property of it throws
NullRow == [t |-> "null", f |-> <<>>]

NoFields ==
  [order_id |-> Undef, OrderID |-> Undef, item_quantity |-> Undef, ItemQuantity |-> Undef,
   order_date |-> Undef, OrderDate |-> Undef, variation_name |-> Undef,
   VariationName |-> Undef, attribute |-> Undef, Attribute |-> Undef,
   marketplace |-> Undef, Marketplace |-> Undef, delivery_country |-> Undef,
   DeliveryCountry |-> Undef]

\* the callback of orders.map on one row
normalizeRow(row) ==
  LET f == IF row.t = "object" THEN row.f ELSE NoFields
  IN  Order(OrText(f.order_id, f.OrderID),
            NormalQuantity(f.item_quantity, f.ItemQuantity),
            OrDate(f.order_date, f.OrderDate),
            OrText(f.variation_name, f.VariationName),
            OrText(f.attribute, f.Attribute),
            OrText(f.marketplace, f.Marketplace),
            OrText(f.delivery_country, f.DeliveryCountry))

\* orders.map(order => ({...})) over the rows of an array
normalizeOrderData(rows) == [i \in 1..Len(rows) |-> normalizeRow(rows[i])]

\* ordersData, the property of the request body
BodyUndefined == [t |-> "undefined", truthy |-> FALSE, rows |-> <<>>]

BodyNull == [t |-> "null", truthy |-> FALSE, rows |-> <<>>]

\* 0 and 5
BodyNumber(n) == [t |-> "number", truthy |-> n # 0, rows |-> <<>>]

\* {}
BodyObject == [t |-> "object", truthy |-> TRUE, rows |-> <<>>]

\* "abc"
BodyString == [t |-> "string", truthy |-> TRUE, rows |-> <<>>]

BodyArray(rows) == [t |-> "array", truthy |-> TRUE, rows |-> rows]

\* normalizeOrderData(ordersData || []) throws a TypeError: the value is truthy
\* and has no map method, or a row is null
NormalizeThrows(b) ==
  b.truthy /\ (b.t # "array" \/ \E i \in 1..Len(b.rows) : b.rows[i].t = "null")

(* ------------------------------ summary ------------------------------- *)

\* orders.map(o => o.order_date).filter(...).map(d => new Date(d)).filter(...)
ValidInstants(os) ==
  {NewDate(os[i].order_date).t : i \in {j \in 1..Len(os) :
      DatePresent(os[j].order_date) /\ NewDate(os[j].order_date).valid}}

\* dates[i]?.toISOString().split('T')[0] || 'N/A'
DateOrNA(S, pick) ==
  IF S = {} THEN [na |-> TRUE, date |-> <<0, 0, 0>>]
  ELSE [na |-> FALSE, date |-> UTCCivil(IF pick = "first" THEN Min(S) ELSE Max(S))]

calculateDataSummary(os) ==
  [totalOrders |-> Len(os),
   uniqueOrderIds |-> Cardinality({os[i].order_id : i \in 1..Len(os)}),
   totalItems |-> SeqSum([i \in 1..Len(os) |-> os[i].item_quantity]),
   uniqueProducts |-> Cardinality({os[i].variation_name : i \in 1..Len(os)}),
   uniqueCountries |-> Cardinality({os[i].delivery_country : i \in 1..Len(os)}),
   uniqueMarketplaces |-> Cardinality({os[i].marketplace : i \in 1..Len(os)}),
   firstDate |-> DateOrNA(ValidInstants(os), "first"),
   lastDate |-> DateOrNA(ValidInstants(os), "last")]

(* ----------------------- comprehensive analytics ---------------------- *)

\* Quantities(os): orders.reduce((sum, order) => sum + (order.item_quantity || 0), 0)
TotalQuantity(os) == SeqSum([i \in 1..Len(os) |-> os[i].item_quantity])

\* attributeAnalysis / productAnalysis: Map<string, number>
attributeAnalysis(os) == SumByField(os, "attribute", <<>>)

productAnalysis(os) == SumByField(os, "variation_name", <<>>)

\* marketplaceAnalysis / countryAnalysis: Map<string, {count, quantity}>
marketplaceAnalysis(os) == GroupByField(os, "marketplace", <<>>)

countryAnalysis(os) == GroupByField(os, "delivery_country", <<>>)

\* monthlyAnalysis without the `if (order.order_id)` test before uniqueOrders.add
RECURSIVE monthlyAnalysis_AddsEmptyIds(_, _, _)
monthlyAnalysis_AddsEmptyIds(os, zone, acc) ==
  IF os = <<>> THEN acc
  ELSE LET order == Head(os)
           date == NewDate(order.order_date)
           monthKey == MonthKeyOf(date.t, zone)
           monthly == MapGet(acc, monthKey,
                        [uniqueOrders |-> {}, totalQuantity |-> 0, totalOrderCount |-> 0])
           next == IF DatePresent(order.order_date) /\ date.valid
                     THEN MapSet(acc, monthKey,
                       [uniqueOrders |-> monthly.uniqueOrders \cup {order.order_id},
                        totalQuantity |-> monthly.totalQuantity + order.item_quantity,
                        totalOrderCount |-> monthly.totalOrderCount + 1])
                     ELSE acc
       IN  monthlyAnalysis_AddsEmptyIds(Tail(os), zone, next)

\* the monthly part of the date loop
RECURSIVE monthlyAnalysis(_, _, _)
monthlyAnalysis(os, zone, acc) ==
  IF os = <<>> THEN acc
  ELSE LET order == Head(os)
           date == NewDate(order.order_date)
           monthKey == MonthKeyOf(date.t, zone)
           monthly == MapGet(acc, monthKey,
                        [uniqueOrders |-> {}, totalQuantity |-> 0, totalOrderCount |-> 0])
           next == IF DatePresent(order.order_date) /\ date.valid
                     THEN MapSet(acc, monthKey,
                       [uniqueOrders |-> IF Truthy(order.order_id)
                                           THEN monthly.uniqueOrders \cup {order.order_id}
                                           ELSE monthly.uniqueOrders,
                        totalQuantity |-> monthly.totalQuantity + order.item_quantity,
                        totalOrderCount |-> monthly.totalOrderCount + 1])
                     ELSE acc
       IN  monthlyAnalysis(Tail(os), zone, next)

\* the daily part of the date loop
RECURSIVE dailyAnalysis(_, _, _)
dailyAnalysis(os, zone, acc) ==
  IF os = <<>> THEN acc
  ELSE LET order == Head(os)
           date == NewDate(order.order_date)
           dailyKey == DailyKeyOf(date.t, zone)
           daily == MapGet(acc, dailyKey,
                      [uniqueOrders |-> {}, totalQuantity |-> 0, countries |-> {}])
           next == IF DatePresent(order.order_date) /\ date.valid
                     THEN MapSet(acc, dailyKey,
                       [uniqueOrders |-> IF Truthy(order.order_id)
                                           THEN daily.uniqueOrders \cup {order.order_id}
                                           ELSE daily.uniqueOrders,
                        totalQuantity |-> daily.totalQuantity + order.item_quantity,
                        countries |-> IF Truthy(order.delivery_country)
                                        THEN daily.countries \cup {Trim(order.delivery_country)}
                                        ELSE daily.countries])
                     ELSE acc
       IN  dailyAnalysis(Tail(os), zone, next)

\* one record added to the cell (outer, inner) of a Map of Maps: a missing
\* outer Map and a missing cell are created, then the cell is counted up
CrossAdd(acc, outer, inner, quantity) ==
  LET cells == MapGet(acc, outer, <<>>)
      current == MapGet(cells, inner, [count |-> 0, quantity |-> 0])
  IN  MapSet(acc, outer, MapSet(cells, inner,
             [count |-> current.count + 1, quantity |-> current.quantity + quantity]))

\* Month x Marketplace, inside the branch of the records with a valid date
RECURSIVE monthlyMarketplaceAnalysis(_, _, _)
monthlyMarketplaceAnalysis(os, zone, acc) ==
  IF os = <<>> THEN acc
  ELSE LET order == Head(os)
           date == NewDate(order.order_date)
           next == IF /\ DatePresent(order.order_date) /\ date.valid
                      /\ Truthy(order.marketplace)
                     THEN CrossAdd(acc, MonthKeyOf(date.t, zone),
                                   Trim(order.marketplace), order.item_quantity)
                     ELSE acc
       IN  monthlyMarketplaceAnalysis(Tail(os), zone, next)

\* Month x Country, inside the branch of the records with a valid date
RECURSIVE monthlyCountryAnalysis(_, _, _)
monthlyCountryAnalysis(os, zone, acc) ==
  IF os = <<>> THEN acc
  ELSE LET order == Head(os)
           date == NewDate(order.order_date)
           next == IF /\ DatePresent(order.order_date) /\ date.valid
                      /\ Truthy(order.delivery_country)
                     THEN CrossAdd(acc, MonthKeyOf(date.t, zone),
                                   Trim(order.delivery_country), order.item_quantity)
                     ELSE acc
       IN  monthlyCountryAnalysis(Tail(os), zone, next)

\* Marketplace x Country, regardless of the date
RECURSIVE marketplaceCountryAnalysis(_, _)
marketplaceCountryAnalysis(os, acc) ==
  IF os = <<>> THEN acc
  ELSE LET order == Head(os)
           next == IF Truthy(order.marketplace) /\ Truthy(order.delivery_country)
                     THEN CrossAdd(acc, Trim(order.marketplace),
                                   Trim(order.delivery_country), order.item_quantity)
                     ELSE acc
       IN  marketplaceCountryAnalysis(Tail(os), next)

\* Attribute x Marketplace, regardless of the date
RECURSIVE attributeMarketplaceAnalysis(_, _)
attributeMarketplaceAnalysis(os, acc) ==
  IF os = <<>> THEN acc
  ELSE LET order == Head(os)
           next == IF Truthy(order.attribute) /\ Truthy(order.marketplace)
                     THEN CrossAdd(acc, Trim(order.attribute),
                                   Trim(order.marketplace), order.item_quantity)
                     ELSE acc
       IN  attributeMarketplaceAnalysis(Tail(os), next)

\* one line per month: `${monthName} ${year}: ${marketplaceList}`
monthlyMarketplaceBreakdown(os, zone) ==
  LET sorted == SortBy(monthlyMarketplaceAnalysis(os, zone, <<>>), "EarlierKey")
  IN  [i \in 1..Len(sorted) |->
         [monthName |-> MonthNameOf(sorted[i].k, zone),
          year |-> sorted[i].k[1],
          list |-> SortBy(sorted[i].v, "MoreQuantity")]]

\* one line per marketplace: `${marketplace} -> ${countryList}`
marketplaceCountryBreakdown(os) ==
  LET sorted == SortBy(marketplaceCountryAnalysis(os, <<>>), "MoreTotal")
  IN  [i \in 1..Len(sorted) |->
         [marketplace |-> sorted[i].k,
          list |-> SortBy(sorted[i].v, "MoreQuantity")]]

\* validDates.length
ValidDateCount(os) ==
  Cardinality({i \in 1..Len(os) :
     DatePresent(os[i].order_date) /\ NewDate(os[i].order_date).valid})

\* orderIdAnalysis.size
OrderIdCount(os) ==
  Cardinality({os[i].order_id : i \in {j \in 1..Len(os) : Truthy(os[j].order_id)}})

allMonthlyBreakdown(os, zone) ==
  LET sorted == SortBy(monthlyAnalysis(os, zone, <<>>), "EarlierKey")
  IN  [i \in 1..Len(sorted) |->
         [monthName |-> MonthNameOf(sorted[i].k, zone),
          year |-> sorted[i].k[1],
          orders |-> Cardinality(sorted[i].v.uniqueOrders),
          items |-> sorted[i].v.totalQuantity]]

Dec31 == <<2024, 12, 31>>

dec31Details(os, zone) ==
  LET daily == dailyAnalysis(os, zone, <<>>)
  IN  IF MapHas(daily, Dec31)
        THEN [found |-> TRUE,
              orders |-> Cardinality(MapGet(daily, Dec31, {}).uniqueOrders),
              countries |-> MapGet(daily, Dec31, {}).countries]
        ELSE [found |-> FALSE, orders |-> 0, countries |-> {}]

\* Array.from(m.values()).reduce((sum, qty) => sum + qty, 0)
totalAttributeQuantity(os) ==
  SeqSum([i \in 1..Len(attributeAnalysis(os)) |-> attributeAnalysis(os)[i].v])

\* Array.from(m.values()).reduce((sum, data) => sum + data.quantity, 0)
totalMarketplaceQuantity(os) ==
  SeqSum([i \in 1..Len(marketplaceAnalysis(os)) |-> marketplaceAnalysis(os)[i].v.items])

totalCountryQuantity(os) ==
  SeqSum([i \in 1..Len(countryAnalysis(os)) |-> countryAnalysis(os)[i].v.items])

\* `${attr[0]}: ${attr[1]} units (${((attr[1] / total) * 100).toFixed(1)}%)`
topAttributes(os) ==
  LET top == Slice(SortBy(attributeAnalysis(os), "MoreValue"), TopAttributes)
  IN  [i \in 1..Len(top) |->
         [k |-> top[i].k, units |-> top[i].v,
          percent |-> PercentFixed1(top[i].v, totalAttributeQuantity(os))]]

topMarketplaces(os) ==
  LET top == Slice(SortBy(marketplaceAnalysis(os), "MoreItems"), TopMarketplaces)
  IN  [i \in 1..Len(top) |->
         [k |-> top[i].k, units |-> top[i].v.items, count |-> top[i].v.count,
          percent |-> PercentFixed1(top[i].v.items, totalMarketplaceQuantity(os))]]

topCountries(os) ==
  LET top == Slice(SortBy(countryAnalysis(os), "MoreItems"), TopCountries)
  IN  [i \in 1..Len(top) |->
         [k |-> top[i].k, units |-> top[i].v.items, count |-> top[i].v.count,
          percent |-> PercentFixed1(top[i].v.items, totalCountryQuantity(os))]]

topProducts(os) ==
  LET top == Slice(SortBy(productAnalysis(os), "MoreValue"), TopProducts)
  IN  [i \in 1..Len(top) |-> [k |-> top[i].k, units |-> top[i].v]]

\* available = FALSE is the text "No orders data available."
generateComprehensiveAnalytics(os, zone) ==
  IF Len(os) = 0
    THEN [available |-> FALSE, totalOrders |-> 0, totalQuantity |-> 0,
          uniqueOrderIds |-> 0, average |-> Number(0), validDates |-> 0,
          allMonthlyBreakdown |-> <<>>,
          monthlyMarketplaceBreakdown |-> <<>>,
          marketplaceCountryBreakdown |-> <<>>,
          dec31Details |-> [found |-> FALSE, orders |-> 0, countries |-> {}],
          topAttributes |-> <<>>, topMarketplaces |-> <<>>,
          topCountries |-> <<>>, topProducts |-> <<>>]
    ELSE [available |-> TRUE, totalOrders |-> Len(os),
          totalQuantity |-> TotalQuantity(os),
          uniqueOrderIds |-> OrderIdCount(os),
          average |-> Fixed2(TotalQuantity(os), Len(os)),
          validDates |-> ValidDateCount(os),
          allMonthlyBreakdown |-> allMonthlyBreakdown(os, zone),
          monthlyMarketplaceBreakdown |-> monthlyMarketplaceBreakdown(os, zone),
          marketplaceCountryBreakdown |-> marketplaceCountryBreakdown(os),
          dec31Details |-> dec31Details(os, zone),
          topAttributes |-> topAttributes(os), topMarketplaces |-> topMarketplaces(os),
          topCountries |-> topCountries(os), topProducts |-> topProducts(os)]

(* ----------------------------- exceptions ---------------------------- *)

\* the value that stands for a TypeError thrown out of an aggregator
TypeError == [threw |-> TRUE]

\* `if (order[field]) { order[field].trim() ...`: a truthy value that is not a
\* string has no trim method
TrimThrows(os, field) == \E i \in 1..Len(os) : os[i][field] = NumberValue

\* `order.order_date && order.order_date.trim() !== ''` on a number
DateTrimThrows(os) == \E i \in 1..Len(os) : os[i].order_date.fmt = "number"

\* the aggregator `name` throws on the records os
Throws(name, os) ==
  CASE name = "generateComprehensiveAnalytics" ->
         \/ TrimThrows(os, "attribute") \/ TrimThrows(os, "marketplace")
         \/ TrimThrows(os, "delivery_country") \/ TrimThrows(os, "variation_name")
         \/ DateTrimThrows(os)
    [] name = "calculateMonthlyBreakdown" ->
         \/ DateTrimThrows(os)
         \/ \E i \in 1..Len(os) :
              /\ DatePresent(os[i].order_date) /\ NewDate(os[i].order_date).valid
              /\ os[i].order_id = NumberValue
    [] name = "calculateSpecificDate" -> DateTrimThrows(os)
    [] name = "calculateDataSummary" -> DateTrimThrows(os)
    [] name = "calculateMarketplaceBreakdown" -> TrimThrows(os, "marketplace")
    [] name = "calculateCountryBreakdown" -> TrimThrows(os, "delivery_country")
    [] name = "calculateProductBreakdown" -> TrimThrows(os, "variation_name")
    [] name = "calculateAttributeBreakdown" -> TrimThrows(os, "attribute")
    [] name = "calculateStandardDeviation" -> FALSE

(* ------------------------------- inputs ------------------------------- *)

\* host time zones, as local time minus UTC in hours
TzOffsets == {-5, 0, 1}

Quantities == {0, 1, 2}

\* "", " ", "A", " A", "B"
DimValues == {EmptyStr, Str(" "), Str("A"), Pad(Str("A")), Str("B")}

\* a record that carries the value v in each of its four categorical fields
DimOrder(v, q) == Order(EmptyStr, q, DateEmpty, v, v, v, v)

DimOrders == {DimOrder(v, q) : v \in DimValues, q \in Quantities}

Letters == <<"a", "b", "c", "d", "e">>

\* pairwise distinct two-letter names
Name(i) == <<Letters[((i - 1) \div 5) + 1], Letters[((i - 1) % 5) + 1]>>

\* n records of pairwise distinct categories; odd rows have quantity q, even rows 1
WideList(n, q) == [i \in 1..n |-> DimOrder(Name(i), IF i % 2 = 1 THEN q ELSE 1)]

WideInputs == {WideList(n, q) : n \in (MaxOrders + 1)..MaxWide, q \in Quantities}

SeqsUpTo(S, n) == UNION {[1..k -> S] : k \in 0..n}

CatInputs == SeqsUpTo(DimOrders, MaxOrders)

DimInputs == CatInputs \cup WideInputs

Jan5 == DateOnly(2024, 1, 5)

Feb1 == DateOnly(2024, 2, 1)

Dec31Date == DateOnly(2024, 12, 31)

\* "2024-12-31T22:00:00-05:00", which is 2025-01-01T03:00Z
Dec31Evening == DateOffset(2024, 12, 31, 22, -5)

Jan1Date == DateOnly(2025, 1, 1)

DE == <<"D", "E">>

\* rows of orders in two months: the order id and the quantity vary
CountingOrders ==
  {Order(id, q, d, EmptyStr, EmptyStr, EmptyStr, EmptyStr) :
     id \in {EmptyStr, Str("A"), Pad(Str("A")), Str("B")},
     q \in {1, 2}, d \in {Jan5, Feb1}}

\* rows around one day: the date string and the delivery country vary
DatedOrders ==
  {Order(Str("A"), q, d, EmptyStr, EmptyStr, EmptyStr, c) :
     q \in {1, 2},
     d \in {DateEmpty, DateBlank, DateGarbage, Dec31Date, Dec31Evening, Jan1Date},
     c \in {EmptyStr, DE}}

Amazon == <<"A", "m", "z">>

eBay == <<"e", "B">>

\* spec section 8, scenario 1
Scenario1 ==
  << Order(Str("A"), 2, Jan5, EmptyStr, EmptyStr, Amazon, EmptyStr),
     Order(Str("A"), 3, Jan5, EmptyStr, EmptyStr, Amazon, EmptyStr),
     Order(Str("B"), 1, Feb1, EmptyStr, EmptyStr, eBay, EmptyStr) >>

\* spec section 8, scenario 5
Scenario5 ==
  Append(Scenario1, Order(Str("C"), 4, DateGarbage, EmptyStr, EmptyStr, Amazon, EmptyStr))

TimeInputs ==
  SeqsUpTo(CountingOrders, MaxTimeOrders) \cup SeqsUpTo(DatedOrders, MaxTimeOrders)
    \cup {Scenario1, Scenario5}

TargetDates == {<<2024, 1, 5>>, <<2024, 12, 31>>, <<2025, 1, 1>>}

\* "0999-12-31"
Y999 == DateOnly(999, 12, 31)

\* rows of one order each on one marketplace, in months of several years
YearOrders ==
  {Order(Str("A"), 1, d, EmptyStr, EmptyStr, Amazon, EmptyStr) :
     d \in {Y999, Jan5, Dec31Date, Jan1Date}}

YearInputs == SeqsUpTo(YearOrders, MaxTimeOrders)

FR == <<"F", "R">>

\* a record of the cross-dimensional domain: the attribute is "X" when the
\* record has a country
CrossOrder(q, d, mp, c) ==
  Order(Str("A"), q, d, EmptyStr, IF c = EmptyStr THEN EmptyStr ELSE Str("X"), mp, c)

\* records of two marketplaces in two months, with and without a country; a
\* record without a date; a record whose marketplace is white space
CrossOrders ==
  {CrossOrder(q, d, mp, c) :
     q \in {1, 2}, d \in {Jan5, Feb1}, mp \in {Amazon, eBay}, c \in {EmptyStr, DE}}
    \cup {CrossOrder(1, DateEmpty, Amazon, DE), CrossOrder(1, Jan5, Str(" "), DE)}

\* eBay first, then Amazon twice: Amazon has the larger total over two countries
CrossScenario ==
  << CrossOrder(2, Feb1, eBay, DE),
     CrossOrder(1, Jan5, Amazon, FR),
     CrossOrder(2, Jan1Date, Amazon, DE),
     CrossOrder(1, Jan5, EmptyStr, DE) >>

CrossInputs == SeqsUpTo(CrossOrders, MaxCrossOrders) \cup {CrossScenario}

\* a row in database format: every property is present
DbRow(o) ==
  Row([NoFields EXCEPT
         !.order_id = StrV(o.order_id), !.item_quantity = NumV(o.item_quantity),
         !.order_date = StrV(o.order_date), !.variation_name = StrV(o.variation_name),
         !.attribute = StrV(o.attribute), !.marketplace = StrV(o.marketplace),
         !.delivery_country = StrV(o.delivery_country)])

DbRows(os) == [i \in 1..Len(os) |-> DbRow(os[i])]

\* the request body that carries the records os in database format
DbBody(os) == BodyArray(DbRows(os))

\* a row in CSV format with the quantity written as the string q
CsvRow(q) ==
  Row([NoFields EXCEPT
         !.OrderID = StrV(Str("A")), !.ItemQuantity = StrV(q), !.OrderDate = StrV(Jan5),
         !.Marketplace = StrV(Amazon), !.DeliveryCountry = StrV(DE)])

\* rows of both formats, well formed and malformed
RawRows ==
  { Row(NoFields),
    CsvRow(<<"3">>), CsvRow(<<"x">>), CsvRow(<<"-", "2">>), CsvRow(<<" ", "1", "2", "x">>),
    DbRow(Order(Str("A"), 2, Jan5, EmptyStr, EmptyStr, Amazon, DE)),
    DbRow(Order(Str("A"), -1, Jan5, EmptyStr, EmptyStr, Amazon, DE)),
    Row([NoFields EXCEPT !.item_quantity = NumV(1), !.marketplace = NumV(5)]),
    Row([NoFields EXCEPT !.item_quantity = NumV(1), !.order_id = NumV(5),
                         !.OrderDate = StrV(Jan5)]),
    Row([NoFields EXCEPT !.item_quantity = NumV(1), !.order_date = NumV(5)]),
    NumberRow,
    NullRow }

\* values of ordersData: absent, null, 0, 5, {}, "abc", and arrays of rows
RawBodies ==
  {BodyUndefined, BodyNull, BodyNumber(0), BodyNumber(5), BodyObject, BodyString}
    \cup {BodyArray(rows) : rows \in SeqsUpTo(RawRows, MaxRawRows)}

\* the record lists of a request that is served together with a request over
\* the list of scenario 1
PairInputs == {<<>>, Scenario5, CrossScenario}

(* ------------------------------- state -------------------------------- *)

NoResult == [none |-> TRUE]

\* what the handler holds for one request: the ordersData of its body, its
\* position, its normalized records, the aggregator it has applied and the
\* value the aggregator returned
Frame(b, st, os, c, r) ==
  [body |-> b, status |-> st, orders |-> os, call |-> c, result |-> r]

\* a request whose body has been read; nothing is normalized or computed yet
ReceivedFrame(b) == Frame(b, "received", <<>>, "none", NoResult)

\* a request that has been answered with status 500: its ordersData was {}
AnsweredFrame == Frame(BodyObject, "error", <<>>, "none", NoResult)

\* the handler has not returned
NoResponse == [status |-> 0, response |-> <<>>]

\* no chat request is past its aggregators
NoChat ==
  /\ message = <<>> /\ chatHistory = <<>> /\ messages = <<>>
  /\ aiResponse = Undef /\ response = NoResponse

\* null, the state of no error and of no success message
NoMessage == [kind |-> "null"]

\* handleUploadToSupabase has not run
NoUpload ==
  [pc |-> "idle", orders |-> <<>>, dataRange |-> "all", startRow |-> 1, endRow |-> 50,
   rows |-> <<>>, i |-> 0, insertedCount |-> 0]

\* OrdersTool as it is constructed: the useState initial values
NoTool ==
  /\ toolOrders = <<>> /\ loading = FALSE
  /\ dataRange = "all" /\ startRow = 1 /\ endRow = 50
  /\ uploading = FALSE /\ toolError = NoMessage /\ success = NoMessage
  /\ upload = NoUpload /\ inserted = <<>>

\* currentChatId of the chat context before a chat is started
NoChatId == 0

\* handleSuggestionClick is not running
NoRequest == [pc |-> "idle", question |-> ""]

\* ChatPage as it is constructed: the useState initial values
NoPage ==
  /\ pageMessages = <<>> /\ isLoading = FALSE /\ currentChatId = NoChatId
  /\ request = NoRequest

\* the handler runs for a request that it has received, on a host in the time
\* zone `zone`, while it holds the frame `waiting` of another request
Received(b, zone, waiting) ==
  /\ body = b
  /\ status = "received"
  /\ orders = <<>>
  /\ tz = zone
  /\ call = "none"
  /\ result = NoResult
  /\ other = waiting
  /\ NoChat /\ NoTool /\ NoPage

\* a request over a short list of categorical data
InitCat == \E os \in CatInputs : Received(DbBody(os), 0, AnsweredFrame)

\* a request over categorical data, short lists and lists of many categories
InitDim == \E os \in DimInputs : Received(DbBody(os), 0, AnsweredFrame)

\* a request over dated data, on a host in any of the time zones
InitTime ==
  \E os \in TimeInputs, zone \in TzOffsets : Received(DbBody(os), zone, AnsweredFrame)

\* a request over data of several years
InitYears ==
  \E os \in YearInputs, zone \in TzOffsets : Received(DbBody(os), zone, AnsweredFrame)

\* a request over data of several dimensions
InitCross ==
  \E os \in CrossInputs, zone \in TzOffsets : Received(DbBody(os), zone, AnsweredFrame)

\* a request with any value for ordersData
InitRaw == \E b \in RawBodies : Received(b, 0, AnsweredFrame)

\* two requests received at the same time, over different record lists
InitPair ==
  \E os \in PairInputs, zone \in TzOffsets :
    Received(DbBody(os), zone, ReceivedFrame(DbBody(Scenario1)))

Init == InitDim \/ InitTime \/ InitYears \/ InitCross \/ InitRaw \/ InitPair

\* const normalizedOrders = normalizeOrderData(ordersData || []); a TypeError
\* is caught by the handler, which answers with status 500
Normalize ==
  /\ status = "received"
  /\ IF NormalizeThrows(body)
       THEN status' = "error" /\ orders' = orders
       ELSE /\ status' = "normalized"
            /\ orders' = normalizeOrderData(IF body.truthy THEN body.rows ELSE <<>>)
  /\ UNCHANGED <<body, tz, call, result, other, chatVars, toolVars, pageVars>>

\* an aggregator is applied to the normalized records of the request, for the
\* first time or once more (the handler applies it for the precise
\* calculations and again for the system prompt); a TypeError out of it is
\* caught by the handler, which answers with status 500
Returns(name, value) ==
  /\ status = "normalized"
  /\ call \in {"none", name}
  /\ call' = name
  /\ IF Throws(name, orders)
       THEN result' = TypeError /\ status' = "error"
       ELSE result' = value /\ status' = status
  /\ UNCHANGED <<body, orders, tz, other, chatVars, toolVars, pageVars>>

CallMarketplaceBreakdown ==
  Returns("calculateMarketplaceBreakdown", calculateMarketplaceBreakdown(orders))

CallCountryBreakdown ==
  Returns("calculateCountryBreakdown", calculateCountryBreakdown(orders))

CallProductBreakdown ==
  Returns("calculateProductBreakdown", calculateProductBreakdown(orders))

CallAttributeBreakdown ==
  Returns("calculateAttributeBreakdown", calculateAttributeBreakdown(orders))

CallMonthlyBreakdown ==
  Returns("calculateMonthlyBreakdown", calculateMonthlyBreakdown(orders, tz))

\* the target date of the second application is the target date of the first
CallSpecificDate ==
  \E targetDate \in TargetDates :
    /\ status = "normalized"
    /\ call = "calculateSpecificDate" => result.target = targetDate
    /\ Returns("calculateSpecificDate", calculateSpecificDate(orders, targetDate))

CallStandardDeviation ==
  Returns("calculateStandardDeviation",
          calculateStandardDeviation([i \in 1..Len(orders) |-> orders[i].item_quantity]))

CallDataSummary ==
  Returns("calculateDataSummary", calculateDataSummary(orders))

CallComprehensiveAnalytics ==
  Returns("generateComprehensiveAnalytics", generateComprehensiveAnalytics(orders, tz))

\* Switch with the normalized records held at process scope: the request that
\* goes on finds the records that the other request left
Switch_SharedOrders ==
  /\ status # "normalized" \/ call # "none"
  /\ body' = other.body
  /\ status' = other.status
  /\ orders' = orders
  /\ call' = other.call
  /\ result' = other.result
  /\ other' = Frame(body, status, other.orders, call, result)
  /\ UNCHANGED <<tz, chatVars, toolVars, pageVars>>

\* the handler waits (for the body of the request, for the language model) or
\* has answered, and the event loop goes on with the other request
Switch ==
  /\ status # "normalized" \/ call # "none"
  /\ body' = other.body
  /\ status' = other.status
  /\ orders' = other.orders
  /\ call' = other.call
  /\ result' = other.result
  /\ other' = Frame(body, status, orders, call, result)
  /\ UNCHANGED <<tz, chatVars, toolVars, pageVars>>

Next ==
  \/ Normalize
  \/ CallMarketplaceBreakdown
  \/ CallCountryBreakdown
  \/ CallProductBreakdown
  \/ CallAttributeBreakdown
  \/ CallMonthlyBreakdown
  \/ CallSpecificDate
  \/ CallStandardDeviation
  \/ CallDataSummary
  \/ CallComprehensiveAnalytics
  \/ Switch

\* the aggregators applied to short lists of categorical data
SpecCat == InitCat /\ [][Next]_vars

\* the aggregators applied to categorical data
SpecDim == InitDim /\ [][Next]_vars

\* the aggregators applied to dated data
SpecTime == InitTime /\ [][Next]_vars

\* the aggregators applied to data of several years
SpecYears == InitYears /\ [][Next]_vars

\* the aggregators applied to data of several dimensions
SpecCross == InitCross /\ [][Next]_vars

\* requests with any value for ordersData
SpecRaw == InitRaw /\ [][Next]_vars

\* two requests served at the same time
SpecPair == InitPair /\ [][Next]_vars

Spec == Init /\ [][Next]_vars

\* the aggregator `name` applied to os; previous is the answer it gave before
\* (the target date of a specific-date query is read from it)
Apply(name, os, zone, previous) ==
  CASE name = "calculateMarketplaceBreakdown" -> calculateMarketplaceBreakdown(os)
    [] name = "calculateCountryBreakdown" -> calculateCountryBreakdown(os)
    [] name = "calculateProductBreakdown" -> calculateProductBreakdown(os)
    [] name = "calculateAttributeBreakdown" -> calculateAttributeBreakdown(os)
    [] name = "calculateMonthlyBreakdown" -> calculateMonthlyBreakdown(os, zone)
    [] name = "calculateSpecificDate" -> calculateSpecificDate(os, previous.target)
    [] name = "calculateStandardDeviation" ->
         calculateStandardDeviation([i \in 1..Len(os) |-> os[i].item_quantity])
    [] name = "calculateDataSummary" -> calculateDataSummary(os)
    [] name = "generateComprehensiveAnalytics" -> generateComprehensiveAnalytics(os, zone)

(* ================ the chat request after the aggregators ============== *)

(* A text is the sequence of its UTF-16 code units, each a one-character
   string; the division sign is written "U+00F7" and any other code unit
   outside ASCII "#" (the handler looks for no other one in a response). *)

UpperCase ==
  <<"A", "B", "C", "D", "E", "F", "G", "H", "I", "J", "K", "L", "M", "N", "O", "P", "Q", "R",
    "S", "T", "U", "V", "W", "X", "Y", "Z">>

LowerCase ==
  <<"a", "b", "c", "d", "e", "f", "g", "h", "i", "j", "k", "l", "m", "n", "o", "p", "q", "r",
    "s", "t", "u", "v", "w", "x", "y", "z">>

\* String.prototype.toLowerCase
ToLowerCase(s) ==
  [i \in 1..Len(s) |->
     IF \E k \in 1..Len(UpperCase) : UpperCase[k] = s[i]
       THEN LowerCase[CHOOSE k \in 1..Len(UpperCase) : UpperCase[k] = s[i]]
       ELSE s[i]]

\* sub stands in s at the index i (from 1)
StandsAt(s, sub, i) ==
  i >= 1 /\ i + Len(sub) - 1 <= Len(s) /\ SubSeq(s, i, i + Len(sub) - 1) = sub

\* String.prototype.includes
Includes(s, sub) == \E i \in 1..(Len(s) + 1) : StandsAt(s, sub, i)

\* String(n) and n.toLocaleString() of an integer from 0 to 999
NumberText(n) == [i \in 1..Len(Digits(n)) |-> DigitChars[Digits(n)[i] + 1]]

\* the index after the digits that stand in s from the index i on
RECURSIVE DigitsEnd(_, _)
DigitsEnd(s, i) == IF i <= Len(s) /\ IsDigit(s[i]) THEN DigitsEnd(s, i + 1) ELSE i

\* the number written by the digits of s
DigitsNumber(s) == LeadingDigits(s, [any |-> FALSE, n |-> 0]).n

(* ------------------------ validateResponseAccuracy --------------------- *)

\* the texts of the notes and of the replacement, between their ${...} parts
ImprovementNote ==
  <<"\n", "\n", "#", "#", " ", "I", "m", "p", "r", "o", "v", "e", "m", "e", "n", "t", " ", "N",
    "o", "t", "e", ":", " ", "R", "e", "s", "p", "o", "n", "s", "e", " ", "s", "h", "o", "u",
    "l", "d", " ", "c", "i", "t", "e", " ", "s", "p", "e", "c", "i", "f", "i", "c", " ", "a",
    "n", "a", "l", "y", "t", "i", "c", "s", " ", "s", "e", "c", "t", "i", "o", "n", "s", " ",
    "(", "e", ".", "g", ".", ",", " ", "\"", "B", "a", "s", "e", "d", " ", "o", "n", " ", "M",
    "A", "R", "K", "E", "T", "P", "L", "A", "C", "E", " ", "B", "Y", " ", "M", "O", "N", "T",
    "H", " ", "B", "R", "E", "A", "K", "D", "O", "W", "N", " ", "s", "e", "c", "t", "i", "o",
    "n", ".", ".", ".", "\"", ")", ".">>

AccuracyNote(number, totalOrders, totalItems) ==
  <<"\n", "\n", "#", "#", " ", "A", "c", "c", "u", "r", "a", "c", "y", " ", "N", "o", "t", "e",
    ":", " ", "T", "o", "t", "a", "l", " ", "m", "e", "n", "t", "i", "o", "n", "e", "d", " ",
    "(">>
    \o NumberText(number) \o
  <<")", " ", "s", "e", "e", "m", "s", " ", "i", "n", "c", "o", "r", "r", "e", "c", "t", ".",
    " ", "D", "a", "t", "a", "b", "a", "s", "e", " ", "c", "o", "n", "t", "a", "i", "n", "s",
    " ">>
    \o NumberText(totalOrders) \o
  <<" ", "t", "o", "t", "a", "l", " ", "o", "r", "d", "e", "r", "s", " ", "a", "n", "d", " ">>
    \o NumberText(totalItems) \o
  <<" ", "t", "o", "t", "a", "l", " ", "i", "t", "e", "m", "s", ".">>

OrderNotFound(searchOrderId, uniqueOrderIds) ==
  <<"#", " ", "O", "r", "d", "e", "r", " ", "I", "D", " ">>
    \o searchOrderId \o
  <<" ", "n", "o", "t", " ", "f", "o", "u", "n", "d", " ", "i", "n", " ", "t", "h", "e", " ",
    "d", "a", "t", "a", "b", "a", "s", "e", ".", "\n", "\n", "T", "h", "e", " ", "d", "a", "t",
    "a", "b", "a", "s", "e", " ", "c", "o", "n", "t", "a", "i", "n", "s", " ">>
    \o NumberText(uniqueOrderIds) \o
  <<" ", "u", "n", "i", "q", "u", "e", " ", "o", "r", "d", "e", "r", " ", "I", "D", "s", ".",
    " ", "P", "l", "e", "a", "s", "e", " ", "v", "e", "r", "i", "f", "y", " ", "t", "h", "e",
    " ", "o", "r", "d", "e", "r", " ", "I", "D", " ", "i", "s", " ", "c", "o", "r", "r", "e",
    "c", "t", ".">>

AccuracyWarning(percentage) ==
  <<"\n", "\n", "#", "#", " ", "A", "c", "c", "u", "r", "a", "c", "y", " ", "W", "a", "r", "n",
    "i", "n", "g", ":", " ", "F", "o", "u", "n", "d", " ", "p", "e", "r", "c", "e", "n", "t",
    "a", "g", "e", " ", "o", "v", "e", "r", " ", "1", "0", "0", "%", " ", "(">>
    \o percentage \o
  <<"%", ")", ".", " ", "P", "l", "e", "a", "s", "e", " ", "v", "e", "r", "i", "f", "y", " ",
    "c", "a", "l", "c", "u", "l", "a", "t", "i", "o", "n", "s", ".">>

ConfidenceNote ==
  <<"\n", "\n", "#", "#", " ", "N", "o", "t", "e", ":", " ", "C", "o", "n", "s", "i", "d", "e",
    "r", " ", "a", "d", "d", "i", "n", "g", " ", "c", "o", "n", "f", "i", "d", "e", "n", "c",
    "e", " ", "l", "e", "v", "e", "l", " ", "(", "H", "i", "g", "h", "/", "M", "e", "d", "i",
    "u", "m", "/", "L", "o", "w", ")", " ", "t", "o", " ", "r", "e", "s", "p", "o", "n", "s",
    "e", ".">>

NewLine == "\n"

\* /<first>.*<second>/i.test(s): first, then second on the same line
SameLine(s, first, second) ==
  LET low == ToLowerCase(s)
  IN  \E i, j \in 1..Len(s) :
        /\ StandsAt(low, first, i) /\ StandsAt(low, second, j)
        /\ j >= i + Len(first)
        /\ \A k \in (i + Len(first))..(j - 1) : s[k] # NewLine

\* /Based on.*section/i.test(s) || /According to.*section/i.test(s)
hasSectionCitation(s) ==
  \/ SameLine(s, <<"b", "a", "s", "e", "d", " ", "o", "n">>,
              <<"s", "e", "c", "t", "i", "o", "n">>)
  \/ SameLine(s, <<"a", "c", "c", "o", "r", "d", "i", "n", "g", " ", "t", "o">>,
              <<"s", "e", "c", "t", "i", "o", "n">>)

TotalWord == <<"t", "o", "t", "a", "l">>

\* the index of the first digit that /total.*?(\d.../i reaches from the word
\* at the index i: the first digit after the word, on the same line; 0 if none
NumberAfter(s, i) ==
  LET found == {j \in (i + Len(TotalWord))..Len(s) :
                  /\ IsDigit(s[j])
                  /\ \A k \in (i + Len(TotalWord))..(j - 1) : s[k] # NewLine /\ ~IsDigit(s[k])}
  IN  IF found = {} THEN 0 ELSE CHOOSE j \in found : TRUE

\* the index after the groups ",ddd" that stand in s from the index k on
RECURSIVE GroupsEnd(_, _)
GroupsEnd(s, k) ==
  IF /\ k + 3 <= Len(s) /\ s[k] = ","
     /\ IsDigit(s[k + 1]) /\ IsDigit(s[k + 2]) /\ IsDigit(s[k + 3])
    THEN GroupsEnd(s, k + 4)
    ELSE k

\* the index after (\d{1,4}(?:,\d{3})*|\d+) matched at the digit of index j:
\* the first alternative takes at most four digits, then the groups
NumberEnd(s, j) ==
  GroupsEnd(s, IF DigitsEnd(s, j) > j + 4 THEN j + 4 ELSE DigitsEnd(s, j))

\* [...s.matchAll(/total.*?(\d{1,4}(?:,\d{3})*|\d+)/gi)] from the index `from`
\* on, as the numbers parseInt(match[1].replace(/,/g, ''))
RECURSIVE TotalNumbers(_, _)
TotalNumbers(s, from) ==
  LET low == ToLowerCase(s)
      starts == {i \in from..Len(s) : StandsAt(low, TotalWord, i) /\ NumberAfter(s, i) # 0}
  IN  IF starts = {} THEN <<>>
      ELSE LET j == NumberAfter(s, Min(starts))
               written == SelectSeq(SubSeq(s, j, NumberEnd(s, j) - 1), IsDigit)
           IN  <<DigitsNumber(written)>> \o TotalNumbers(s, NumberEnd(s, j))

\* the first total that is flagged: more than twice the orders or the items
FlaggedTotals(s, totalOrders, totalItems) ==
  SelectSeq(TotalNumbers(s, 1),
            LAMBDA number : number > 0 /\ (number > totalOrders * 2 \/ number > totalItems * 2))

\* /\d{6,}/: the index of the first run of six digits or more; 0 if none
OrderIdStart(s) ==
  LET found == {i \in 1..Len(s) : \A k \in i..(i + 5) : k <= Len(s) /\ IsDigit(s[k])}
  IN  IF found = {} THEN 0 ELSE Min(found)

\* userMessage.match(/(\d{6,})/)[1]: the whole run of digits
searchOrderId(s) == SubSeq(s, OrderIdStart(s), DigitsEnd(s, OrderIdStart(s)) - 1)

\* the start of the run of digits that ends at the index e; e + 1 when no
\* digit stands at e
RECURSIVE DigitsStart(_, _)
DigitsStart(s, e) == IF e >= 1 /\ IsDigit(s[e]) THEN DigitsStart(s, e - 1) ELSE e + 1

\* what /(\d+\.?\d*)%/ matches before the sign at the index p: the digits
\* before the point and the digits after it; none when no digit is there
PercentageAt(s, p) ==
  LET a == DigitsStart(s, p - 1)
      fraction == SubSeq(s, a, p - 1)
      pointed == a >= 3 /\ s[a - 1] = "." /\ IsDigit(s[a - 2])
  IN  IF pointed
        THEN [any |-> TRUE, whole |-> SubSeq(s, DigitsStart(s, a - 2), a - 2),
              fraction |-> fraction]
      ELSE IF fraction # <<>>
        THEN [any |-> TRUE, whole |-> fraction, fraction |-> <<>>]
        ELSE [any |-> FALSE, whole |-> <<>>, fraction |-> <<>>]

\* the digits of a fraction without its trailing zeros
RECURSIVE Significant(_)
Significant(fraction) ==
  IF fraction # <<>> /\ fraction[Len(fraction)] = "0"
    THEN Significant(SubSeq(fraction, 1, Len(fraction) - 1))
    ELSE fraction

\* parseFloat(match[1]) > 100
Over100(percentage) ==
  \/ DigitsNumber(percentage.whole) > 100
  \/ DigitsNumber(percentage.whole) = 100 /\ Significant(percentage.fraction) # <<>>

\* `${parseFloat(match[1])}`
PercentageText(percentage) ==
  NumberText(DigitsNumber(percentage.whole))
    \o (IF Significant(percentage.fraction) = <<>> THEN <<>>
        ELSE <<".">> \o Significant(percentage.fraction))

\* the indexes of the percent signs whose percentage is over 100
SignsOver100(s) ==
  {p \in 1..Len(s) : s[p] = "%" /\ PercentageAt(s, p).any /\ Over100(PercentageAt(s, p))}

\* /confidence|certain|sure|accurate/i.test(s)
hasConfidenceLevel(s) ==
  \E word \in {<<"c", "o", "n", "f", "i", "d", "e", "n", "c", "e">>,
               <<"c", "e", "r", "t", "a", "i", "n">>, <<"s", "u", "r", "e">>,
               <<"a", "c", "c", "u", "r", "a", "t", "e">>} :
    Includes(ToLowerCase(s), word)

OrderWord == <<"o", "r", "d", "e", "r">>

NotFoundWords == <<"n", "o", "t", " ", "f", "o", "u", "n", "d">>

\* the word is looked for in the message as it is written
asksForOrderId_CaseSensitive(userMessage) ==
  Includes(userMessage, OrderWord) /\ OrderIdStart(userMessage) # 0

\* userMessage.toLowerCase().includes('order') && /\d{6,}/.test(userMessage)
asksForOrderId(userMessage) ==
  Includes(ToLowerCase(userMessage), OrderWord) /\ OrderIdStart(userMessage) # 0

\* the response of the language model with the notes of the validation, or
\* the replacement when the message asks for an order id that no record has
validateResponseAccuracy(response0, ordersData, userMessage) ==
  LET totalOrders == Len(ordersData)
      totalItems == SeqSum([i \in 1..Len(ordersData) |-> ordersData[i].item_quantity])
      uniqueOrderIds == Cardinality({ordersData[i].order_id : i \in 1..Len(ordersData)})
      cited == IF ~hasSectionCitation(response0) /\ Len(response0) > 100
                 THEN response0 \o ImprovementNote ELSE response0
      flagged == FlaggedTotals(response0, totalOrders, totalItems)
      totalled == IF flagged # <<>>
                    THEN cited \o AccuracyNote(flagged[1], totalOrders, totalItems)
                    ELSE cited
      asked == asksForOrderId(userMessage)
      orderExists == \E i \in 1..Len(ordersData) :
                       ordersData[i].order_id = searchOrderId(userMessage)
      looked == IF asked /\ ~orderExists /\ ~Includes(response0, NotFoundWords)
                  THEN OrderNotFound(searchOrderId(userMessage), uniqueOrderIds)
                  ELSE totalled
      over == SignsOver100(response0)
      warned == IF over # {}
                  THEN looked \o AccuracyWarning(PercentageText(PercentageAt(response0, Min(over))))
                  ELSE looked
  IN  IF ~hasConfidenceLevel(response0) /\ Len(response0) > 100
        THEN warned \o ConfidenceNote ELSE warned

(* ------------------------ enhanceResponseQuality ----------------------- *)

MonthCitation ==
  <<"B", "a", "s", "e", "d", " ", "o", "n", " ", "M", "A", "R", "K", "E", "T", "P", "L", "A",
    "C", "E", " ", "B", "Y", " ", "M", "O", "N", "T", "H", " ", "B", "R", "E", "A", "K", "D",
    "O", "W", "N", " ", "s", "e", "c", "t", "i", "o", "n", ":", " ">>

CountryCitation ==
  <<"B", "a", "s", "e", "d", " ", "o", "n", " ", "M", "A", "R", "K", "E", "T", "P", "L", "A",
    "C", "E", " ", "#", " ", "C", "O", "U", "N", "T", "R", "Y", " ", "C", "O", "M", "B", "I",
    "N", "A", "T", "I", "O", "N", "S", " ", "s", "e", "c", "t", "i", "o", "n", ":", " ">>

CalculationMethod ==
  <<"\n", "\n", "#", "#", " ", "C", "a", "l", "c", "u", "l", "a", "t", "i", "o", "n", " ", "M",
    "e", "t", "h", "o", "d", ":", " ", "P", "e", "r", "c", "e", "n", "t", "a", "g", "e", "s",
    " ", "c", "a", "l", "c", "u", "l", "a", "t", "e", "d", " ", "a", "s", " ", "(", "c", "a",
    "t", "e", "g", "o", "r", "y", " ", "t", "o", "t", "a", "l", " ", "U+00F7", " ", "o", "v",
    "e", "r", "a", "l", "l", " ", "t", "o", "t", "a", "l", ")", " ", "#", " ", "1", "0", "0">>

ConfidenceLevel ==
  <<"\n", "\n", "#", " ", "C", "o", "n", "f", "i", "d", "e", "n", "c", "e", " ", "L", "e", "v",
    "e", "l", ":", " ", "H", "i", "g", "h", " ", "(", "b", "a", "s", "e", "d", " ", "o", "n",
    " ", "c", "o", "m", "p", "l", "e", "t", "e", " ", "a", "n", "a", "l", "y", "t", "i", "c",
    "s", " ", "d", "a", "t", "a", ")">>

\* s.replace(/^([^.]+)/, citation + '$1'): the citation before the text, when
\* the text begins with a character other than a full stop
Cite(s, citation) == IF s # <<>> /\ s[1] # "." THEN citation \o s ELSE s

\* /\d+\.\d+%/.test(s)
hasDecimalPercentage(s) ==
  \E p \in 1..Len(s) :
    /\ s[p] = "%" /\ PercentageAt(s, p).any
    /\ PercentageAt(s, p).fraction # <<>>

enhanceResponseQuality(response0, userMessage) ==
  LET asks(word) == Includes(ToLowerCase(userMessage), word)
      marketplaceWord == <<"m", "a", "r", "k", "e", "t", "p", "l", "a", "c", "e">>
      cited == IF \/ Includes(response0, <<"B", "a", "s", "e", "d", " ", "o", "n">>)
                  \/ Includes(response0, <<"A", "c", "c", "o", "r", "d", "i", "n", "g", " ", "t", "o">>)
                 THEN response0
               ELSE IF asks(marketplaceWord) /\ asks(<<"m", "o", "n", "t", "h">>)
                 THEN Cite(response0, MonthCitation)
               ELSE IF asks(marketplaceWord) /\ asks(<<"c", "o", "u", "n", "t", "r", "y">>)
                 THEN Cite(response0, CountryCitation)
                 ELSE response0
      explained == IF /\ hasDecimalPercentage(response0)
                      /\ ~Includes(response0, <<"c", "a", "l", "c", "u", "l", "a", "t", "e", "d">>)
                      /\ ~Includes(response0, <<"U+00F7">>)
                     THEN cited \o CalculationMethod ELSE cited
  IN  IF /\ Len(response0) > 100
         /\ ~Includes(response0, <<"c", "o", "n", "f", "i", "d", "e", "n", "c", "e">>)
         /\ ~Includes(response0, <<"C", "o", "n", "f", "i", "d", "e", "n", "c", "e">>)
        THEN explained \o ConfidenceLevel ELSE explained

(* --------------------------- the chat request ------------------------- *)

\* bounds of the chat requests: the exchanges of chatHistory and the records
MaxHistory == 4

MaxChatOrders == 2

KnownId == <<"1", "2", "3", "4", "5", "6">>

OtherId == <<"6", "5", "4", "3", "2", "1">>

ChatOrders ==
  SeqsUpTo({Order(id, 1, Jan5, EmptyStr, EmptyStr, Amazon, DE) : id \in {KnownId, OtherId}},
           MaxChatOrders)

\* message, the property of the request body
Questions ==
  { <<>>,
    <<"O", "r", "d", "e", "r", " ", "1", "2", "3", "4", "5", "6">>,
    <<"o", "r", "d", "e", "r", " ", "1", "2", "3", "4", "5", "6", " ", "o", "r", " ", "6", "5",
      "4", "3", "2", "1">>,
    <<"O", "R", "D", "E", "R", " ", "6", "5", "4", "3", "2", "1">>,
    <<"6", "5", "4", "3", "2", "1">>,
    <<"o", "r", "d", "e", "r", " ", "1", "2", "3", "4", "5">>,
    <<"m", "a", "r", "k", "e", "t", "p", "l", "a", "c", "e", " ", "b", "y", " ", "m", "o", "n",
      "t", "h", " ", "f", "o", "r", " ", "o", "r", "d", "e", "r", " ", "1", "2", "3", "4", "5",
      "6", "7">>,
    <<"m", "a", "r", "k", "e", "t", "p", "l", "a", "c", "e", " ", "b", "y", " ", "c", "o", "u",
      "n", "t", "r", "y">> }

\* data.choices[0].message.content
Answers ==
  {
    <<"o", "k">>,
    <<"O", "r", "d", "e", "r", " ", "6", "5", "4", "3", "2", "1", " ", "s", "h", "i", "p", "p",
      "e", "d", ".">>,
    <<"I", "t", " ", "w", "a", "s", " ", "n", "o", "t", " ", "f", "o", "u", "n", "d", ".">>,
    <<"N", "o", "t", " ", "f", "o", "u", "n", "d", ".">>,
    <<".", "5">>,
    <<"T", "h", "e", " ", "d", "a", "t", "a", "b", "a", "s", "e", " ", "h", "o", "l", "d", "s",
      " ", "a", " ", "t", "o", "t", "a", "l", " ", "o", "f", " ", "5", "0", "0", "0", " ", "o",
      "r", "d", "e", "r", "s", ",", " ", "o", "f", " ", "w", "h", "i", "c", "h", " ", "1", "5",
      "0", "%", " ", "w", "e", "r", "e", " ", "d", "e", "l", "i", "v", "e", "r", "e", "d", " ",
      "a", "n", "d", " ", "1", "2", ".", "5", "%", " ", "w", "e", "r", "e", " ", "r", "e", "t",
      "u", "r", "n", "e", "d", " ", "t", "o", " ", "t", "h", "e", " ", "w", "a", "r", "e", "h",
      "o", "u", "s", "e", " ", "l", "a", "s", "t", " ", "m", "o", "n", "t", "h", ".">> }

\* chatHistory, the property of the request body: n earlier exchanges
Exchange(k) ==
  [user |-> <<"Q">> \o NumberText(k), assistant |-> <<"A">> \o NumberText(k)]

History(n) == [k \in 1..n |-> Exchange(k)]

\* the prompt with the outputs of the aggregators
SystemPrompt == <<"systemPrompt">>

RECURSIVE Forwarded(_)
\* chatHistory.forEach(msg => messages.push({user ...}, {assistant ...}))
Forwarded(history) ==
  IF history = <<>> THEN <<>>
  ELSE <<[role |-> "user", content |-> Head(history).user],
         [role |-> "assistant", content |-> Head(history).assistant]>>
         \o Forwarded(Tail(history))

\* if (!message): status 400 before anything is normalized
MessageRequired ==
  /\ status = "received" /\ message = <<>> /\ response = NoResponse
  /\ response' = [status |-> 400, response |-> <<>>]
  /\ status' = "error"
  /\ UNCHANGED <<body, orders, tz, call, result, other, message, chatHistory, messages,
                 aiResponse, toolVars, pageVars>>

\* normalizeOrderData(ordersData || []) of a request that has a message
NormalizeOrders == message # <<>> /\ Normalize

\* process.env.DEEPSEEK_API_KEY is not set: status 500
ApiKeyMissing ==
  /\ status = "normalized" /\ messages = <<>> /\ response = NoResponse
  /\ response' = [status |-> 500, response |-> <<>>]
  /\ UNCHANGED <<engineVars, message, chatHistory, messages, aiResponse, toolVars, pageVars>>

\* the messages of the request to the language model, up to the fetch
BuildMessages ==
  /\ status = "normalized" /\ messages = <<>> /\ response = NoResponse
  /\ messages' = <<[role |-> "system", content |-> SystemPrompt]>>
                    \o Forwarded(chatHistory)
                    \o <<[role |-> "user", content |-> message]>>
  /\ UNCHANGED <<engineVars, message, chatHistory, aiResponse, response, toolVars, pageVars>>

\* the fetch throws, the response is not ok or it has no choices: status 500
ModelFails ==
  /\ messages # <<>> /\ aiResponse = Undef /\ response = NoResponse
  /\ response' = [status |-> 500, response |-> <<>>]
  /\ UNCHANGED <<engineVars, message, chatHistory, messages, aiResponse, toolVars, pageVars>>

\* the language model answers with the text a
ModelAnswers(a) ==
  /\ messages # <<>> /\ aiResponse = Undef /\ response = NoResponse
  /\ aiResponse' = StrV(a)
  /\ UNCHANGED <<engineVars, message, chatHistory, messages, response, toolVars, pageVars>>

\* the answer is validated and enhanced, and returned whatever the
\* suggestions are (generateAISuggestions catches what it throws)
Respond ==
  /\ aiResponse # Undef /\ response = NoResponse
  /\ response' =
       [status |-> 200,
        response |-> enhanceResponseQuality(
                       validateResponseAccuracy(aiResponse.s, orders, message), message)]
  /\ UNCHANGED <<engineVars, message, chatHistory, messages, aiResponse, toolVars, pageVars>>

\* a chat request whose body has been read
InitChat ==
  \E os \in ChatOrders, q \in Questions, n \in 0..MaxHistory :
    /\ body = DbBody(os) /\ status = "received" /\ orders = <<>> /\ tz = 0
    /\ call = "none" /\ result = NoResult /\ other = AnsweredFrame
    /\ message = q /\ chatHistory = History(n) /\ messages = <<>>
    /\ aiResponse = Undef /\ response = NoResponse
    /\ NoTool /\ NoPage

NextChat ==
  \/ MessageRequired
  \/ NormalizeOrders
  \/ ApiKeyMissing
  \/ BuildMessages
  \/ ModelFails
  \/ \E a \in Answers : ModelAnswers(a)
  \/ Respond

\* the chat request from its body to its response
SpecChat == InitChat /\ [][NextChat]_vars

(* ============================== OrdersTool ============================= *)

\* const batchSize = 100
BatchSize == 100

\* data.length of the fetched CSV: fewer rows than a batch, and two batches
\* and a row
FetchSizes == {2, 2 * BatchSize + 1}

\* what is typed into 'From Row' and 'To Row', as parseInt reads it (NaN for
\* an emptied field)
TypedRows == {NaN, Number(1), Number(2), Number(BatchSize + 1), Number(2 * BatchSize + 2)}

\* the rows of the CSV, each known by its place in it
FetchedRows(n) == [k \in 1..n |-> k]

\* the row prepared for insertion (ordersToUpload.map)
InsertRow(order) == [order_id |-> order]

\* Array.prototype.slice(start, end), for 0 <= start
SliceFrom(s, start, end) == SubSeq(s, start + 1, Min({Len(s), end}))

\* parseInt(e.target.value) || fallback
ParsedOr(typed, fallback) ==
  IF typed.kind = "number" /\ typed.v # 0 THEN typed.v ELSE fallback

\* the text after 'To Row': Math.max(0, endRow - startRow + 1) rows will be
\* uploaded
AnnouncedRows(first, last) == Max({0, last - first + 1})

\* handleFetchOrders up to its await
FetchClick ==
  /\ ~loading
  /\ loading' = TRUE /\ toolError' = NoMessage /\ success' = NoMessage
  /\ UNCHANGED <<engineVars, chatVars, pageVars, toolOrders, dataRange, startRow, endRow,
                 uploading, upload, inserted>>

\* fetchOrdersCSV resolves with n rows
FetchArrives(n) ==
  /\ loading
  /\ toolOrders' = FetchedRows(n)
  /\ success' = [kind |-> "fetched", count |-> n]
  /\ endRow' = Min({50, n})
  /\ loading' = FALSE
  /\ UNCHANGED <<engineVars, chatVars, pageVars, dataRange, startRow, uploading, toolError,
                 upload, inserted>>

\* fetchOrdersCSV rejects
FetchFails ==
  /\ loading
  /\ toolError' = [kind |-> "fetch"]
  /\ loading' = FALSE
  /\ UNCHANGED <<engineVars, chatVars, pageVars, toolOrders, dataRange, startRow, endRow,
                 uploading, success, upload, inserted>>

\* one of the radio buttons, shown once orders are fetched
SetDataRange(value) ==
  /\ toolOrders # <<>>
  /\ dataRange' = value
  /\ UNCHANGED <<engineVars, chatVars, pageVars, toolOrders, loading, startRow, endRow,
                 uploading, toolError, success, upload, inserted>>

\* onChange of 'From Row', shown for the custom range
SetStartRow(typed) ==
  /\ toolOrders # <<>> /\ dataRange = "custom"
  /\ startRow' = ParsedOr(typed, 1)
  /\ UNCHANGED <<engineVars, chatVars, pageVars, toolOrders, loading, dataRange, endRow,
                 uploading, toolError, success, upload, inserted>>

\* onChange of 'To Row'
SetEndRow(typed) ==
  /\ toolOrders # <<>> /\ dataRange = "custom"
  /\ endRow' = ParsedOr(typed, startRow)
  /\ UNCHANGED <<engineVars, chatVars, pageVars, toolOrders, loading, dataRange, startRow,
                 uploading, toolError, success, upload, inserted>>

\* the rows that handleUploadToSupabase takes from the rows it sees
ordersToUpload ==
  IF dataRange = "all" THEN toolOrders
  ELSE SliceFrom(toolOrders, Max({0, startRow - 1}), Min({Len(toolOrders), endRow}))

\* startIndex >= endIndex
RangeRejected ==
  dataRange = "custom" /\ Max({0, startRow - 1}) >= Min({Len(toolOrders), endRow})

\* a batch that takes the first row of the next batch with it
Batch_Overlapping(u) == SliceFrom(u.rows, u.i, u.i + BatchSize + 1)

\* the batch of the insert that the running upload awaits
Batch(u) == SliceFrom(u.rows, u.i, u.i + BatchSize)

\* handleUploadToSupabase, from the click on the enabled button up to its
\* first await, or to its end when the range is rejected
StartUpload ==
  /\ ~uploading /\ toolOrders # <<>>
  /\ success' = NoMessage
  /\ IF RangeRejected
       THEN /\ toolError' = [kind |-> "Start row must be less than end row"]
            /\ uploading' = FALSE
            /\ upload' = [pc |-> "rejected", orders |-> toolOrders, dataRange |-> dataRange,
                          startRow |-> startRow, endRow |-> endRow, rows |-> <<>>,
                          i |-> 0, insertedCount |-> 0]
            /\ inserted' = <<>>
       ELSE /\ toolError' = NoMessage
            /\ uploading' = TRUE
            /\ upload' = [pc |-> "inserting", orders |-> toolOrders, dataRange |-> dataRange,
                          startRow |-> startRow, endRow |-> endRow,
                          rows |-> [k \in 1..Len(ordersToUpload) |-> InsertRow(ordersToUpload[k])],
                          i |-> 0, insertedCount |-> 0]
            /\ inserted' = <<>>
  /\ UNCHANGED <<engineVars, chatVars, pageVars, toolOrders, loading, dataRange, startRow,
                 endRow>>

\* the insert of the awaited batch succeeds: the loop goes on to the next
\* batch, or the upload ends with its success message
InsertSucceeds ==
  /\ upload.pc = "inserting"
  /\ inserted' = Append(inserted, Batch(upload))
  /\ LET next == [upload EXCEPT !.i = @ + BatchSize,
                                !.insertedCount = @ + Len(Batch(upload))]
     IN  IF next.i < Len(upload.rows)
           THEN /\ upload' = next
                /\ UNCHANGED <<success, uploading>>
           ELSE /\ upload' = [next EXCEPT !.pc = "done"]
                /\ success' = [kind |-> "uploaded", count |-> next.insertedCount,
                               dataRange |-> upload.dataRange, startRow |-> upload.startRow,
                               endRow |-> upload.endRow]
                /\ uploading' = FALSE
  /\ UNCHANGED <<engineVars, chatVars, pageVars, toolOrders, loading, dataRange, startRow,
                 endRow, toolError>>

\* the insert of the awaited batch fails: the loop is left by the throw
InsertFails ==
  /\ upload.pc = "inserting"
  /\ upload' = [upload EXCEPT !.pc = "failed"]
  /\ toolError' = [kind |-> "insert", batch |-> upload.i \div BatchSize + 1]
  /\ uploading' = FALSE
  /\ UNCHANGED <<engineVars, chatVars, pageVars, toolOrders, loading, dataRange, startRow,
                 endRow, success, inserted>>

\* the component after it is constructed
InitUpload ==
  /\ body = BodyObject /\ status = "error" /\ orders = <<>> /\ tz = 0
  /\ call = "none" /\ result = NoResult /\ other = AnsweredFrame
  /\ NoChat /\ NoTool /\ NoPage

NextUpload ==
  \/ FetchClick
  \/ \E n \in FetchSizes : FetchArrives(n)
  \/ FetchFails
  \/ \E value \in {"all", "custom"} : SetDataRange(value)
  \/ \E typed \in TypedRows : SetStartRow(typed)
  \/ \E typed \in TypedRows : SetEndRow(typed)
  \/ StartUpload
  \/ InsertSucceeds
  \/ InsertFails

\* OrdersTool from its construction on
SpecUpload == InitUpload /\ [][NextUpload]_vars

(* =============================== ChatPage ============================== *)

\* bounds of the page: the messages of one chat and the chats started
MaxPageMessages == 4

MaxChats == 3

\* the suggestions, or what is typed
PageQuestions == {"How many orders do we have?", "What is the most popular marketplace?"}

\* data.response of a response with an ok status
PageReplies == {"42 orders", "Amazon"}

Apology ==
  [role |-> "assistant",
   content |-> "Sorry, I encountered an error while processing your request. Please try again."]

Welcome == [role |-> "assistant", content |-> "Hello! Welcome to the chat tool."]

\* handleSuggestionClick up to its fetch; with isLoading it returns at once
Ask(suggestion) ==
  /\ ~isLoading
  /\ Len(pageMessages) + 2 <= MaxPageMessages
  /\ currentChatId' = IF currentChatId = NoChatId THEN currentChatId + 1 ELSE currentChatId
  /\ isLoading' = TRUE
  /\ pageMessages' = Append(pageMessages, [role |-> "user", content |-> suggestion])
  /\ request' = [pc |-> "fetch", question |-> suggestion]
  /\ UNCHANGED <<engineVars, chatVars, toolVars>>

\* the catch without the finally: the loading never ends
Apologize_NoFinally ==
  /\ pageMessages' = Append(pageMessages, Apology)
  /\ request' = NoRequest
  /\ UNCHANGED <<engineVars, chatVars, toolVars, currentChatId, isLoading>>

\* catch and finally: the apology is appended and the loading ends
Apologize ==
  /\ pageMessages' = Append(pageMessages, Apology)
  /\ isLoading' = FALSE
  /\ request' = NoRequest
  /\ UNCHANGED <<engineVars, chatVars, toolVars, currentChatId>>

\* the fetch rejects
FetchThrows == request.pc = "fetch" /\ Apologize

\* the response has a status that is not ok: the handler throws
ResponseNotOk == request.pc = "fetch" /\ Apologize

\* the response has an ok status: the handler awaits its body
ResponseOk ==
  /\ request.pc = "fetch"
  /\ request' = [request EXCEPT !.pc = "json"]
  /\ UNCHANGED <<engineVars, chatVars, toolVars, pageMessages, isLoading, currentChatId>>

\* the body is read: the reply is appended and the loading ends
JsonArrives(reply) ==
  /\ request.pc = "json"
  /\ pageMessages' = Append(pageMessages, [role |-> "assistant", content |-> reply])
  /\ isLoading' = FALSE
  /\ request' = NoRequest
  /\ UNCHANGED <<engineVars, chatVars, toolVars, currentChatId>>

\* the body cannot be read
JsonThrows == request.pc = "json" /\ Apologize

\* startNewChat, from the header, whether a request is running or not
startNewChat ==
  /\ currentChatId < MaxChats
  /\ currentChatId' = currentChatId + 1
  /\ pageMessages' = <<Welcome>>
  /\ UNCHANGED <<engineVars, chatVars, toolVars, isLoading, request>>

\* the request of the page comes to an end
Settles ==
  \/ FetchThrows
  \/ ResponseNotOk
  \/ ResponseOk
  \/ \E reply \in PageReplies : JsonArrives(reply)
  \/ JsonThrows

InitPage ==
  /\ body = BodyObject /\ status = "error" /\ orders = <<>> /\ tz = 0
  /\ call = "none" /\ result = NoResult /\ other = AnsweredFrame
  /\ NoChat /\ NoTool /\ NoPage

NextPage ==
  \/ \E suggestion \in PageQuestions : Ask(suggestion)
  \/ FetchThrows
  \/ ResponseNotOk
  \/ ResponseOk
  \/ \E reply \in PageReplies : JsonArrives(reply)
  \/ JsonThrows
  \/ startNewChat

\* ChatPage from its construction on
SpecPage == InitPage /\ [][NextPage]_vars

\* a request that was sent is answered or fails: the fetch and the reading of
\* the body come to an end
SpecPageFair == SpecPage /\ WF_vars(Settles)

(* ===================== properties of the aggregators =================== *)

\* the sum of item_quantity over the rows of the index set S
RECURSIVE QuantityOver(_, _)
QuantityOver(os, S) ==
  IF S = {} THEN 0
  ELSE LET i == CHOOSE x \in S : TRUE
       IN  os[i].item_quantity + QuantityOver(os, S \ {i})

\* the rows whose field is not the empty string
RowsWith(os, field) == {i \in 1..Len(os) : os[i][field] # EmptyStr}

\* the distinct trimmed values of the field over the rows that have it
ValuesOf(os, field) == {Trim(os[i][field]) : i \in RowsWith(os, field)}

GroupedItems(breakdown) == SeqSum([i \in 1..Len(breakdown) |-> breakdown[i].v.items])

GroupedValues(breakdown) == SeqSum([i \in 1..Len(breakdown) |-> breakdown[i].v])

(* C1, as stated: in each of the marketplace, country, product and attribute
   breakdowns the summed quantities of the returned groups add up to the sum of
   item_quantity over the records whose value for that dimension is non-empty. *)
C1_Conservation ==
  /\ call = "calculateMarketplaceBreakdown" =>
       GroupedItems(result) = QuantityOver(orders, RowsWith(orders, "marketplace"))
  /\ call = "calculateCountryBreakdown" =>
       GroupedItems(result) = QuantityOver(orders, RowsWith(orders, "delivery_country"))
  /\ call = "calculateProductBreakdown" =>
       GroupedValues(result) = QuantityOver(orders, RowsWith(orders, "variation_name"))
  /\ call = "calculateAttributeBreakdown" =>
       GroupedValues(result) = QuantityOver(orders, RowsWith(orders, "attribute"))

(* C1, amended: the marketplace and country breakdowns conserve the quantity of
   the records whose value is non-empty; the product and attribute breakdowns
   return at most 20 groups, conserve it when at most 20 distinct trimmed values
   occur, and never report more than it. *)
C1_ConservationUpToLimit ==
  /\ call = "calculateMarketplaceBreakdown" =>
       GroupedItems(result) = QuantityOver(orders, RowsWith(orders, "marketplace"))
  /\ call = "calculateCountryBreakdown" =>
       GroupedItems(result) = QuantityOver(orders, RowsWith(orders, "delivery_country"))
  /\ call = "calculateProductBreakdown" =>
       /\ Len(result) <= ProductBreakdownLimit
       /\ GroupedValues(result) <= QuantityOver(orders, RowsWith(orders, "variation_name"))
       /\ Cardinality(ValuesOf(orders, "variation_name")) <= ProductBreakdownLimit =>
            GroupedValues(result) = QuantityOver(orders, RowsWith(orders, "variation_name"))
  /\ call = "calculateAttributeBreakdown" =>
       /\ Len(result) <= AttributeBreakdownLimit
       /\ GroupedValues(result) <= QuantityOver(orders, RowsWith(orders, "attribute"))
       /\ Cardinality(ValuesOf(orders, "attribute")) <= AttributeBreakdownLimit =>
            GroupedValues(result) = QuantityOver(orders, RowsWith(orders, "attribute"))

\* a product breakdown of two groups over records of which one has no product
C1_Witness ==
  /\ call = "calculateProductBreakdown"
  /\ Len(result) = 2
  /\ GroupedValues(result) > 0
  /\ \E i \in 1..Len(orders) : orders[i].variation_name = EmptyStr /\ orders[i].item_quantity > 0

(* C2, as stated: in every breakdown each group key is the trimmed value of the
   field of a record, and the empty string is never a group key. *)
C2_TrimmedNonEmptyKeys ==
  /\ call = "calculateMarketplaceBreakdown" =>
       MapKeys(result) = ValuesOf(orders, "marketplace") \ {EmptyStr}
  /\ call = "calculateCountryBreakdown" =>
       MapKeys(result) = ValuesOf(orders, "delivery_country") \ {EmptyStr}
  /\ call = "calculateProductBreakdown" =>
       MapKeys(result) \subseteq ValuesOf(orders, "variation_name") \ {EmptyStr}
  /\ call = "calculateAttributeBreakdown" =>
       MapKeys(result) \subseteq ValuesOf(orders, "attribute") \ {EmptyStr}

(* ------------------------- temporal properties ------------------------ *)

\* the date string is one that new Date() parses
Parsable(s) == s.fmt \in {"date", "offset"}

\* the date string is a bare YYYY-MM-DD
Bare(s) == s.fmt = "date"

ParsableRows(os) == {i \in 1..Len(os) : Parsable(os[i].order_date)}

\* the record list without the records whose date is empty or unparsable
WithoutBadDates(os) == SelectSeq(os, LAMBDA o : Parsable(o.order_date))

\* the months <<year, month>> written in the bare date strings
WrittenMonths(os) ==
  {<<os[i].order_date.y, os[i].order_date.m>> : i \in {j \in 1..Len(os) : Bare(os[j].order_date)}}

RowsWrittenIn(os, month) ==
  {i \in 1..Len(os) :
     Bare(os[i].order_date) /\ <<os[i].order_date.y, os[i].order_date.m>> = month}

\* the distinct order ids of the rows S, blank ids aside
OrderIdsOf(os, S) == {Trim(os[i].order_id) : i \in S} \ {EmptyStr}

(* C3, as stated, over record lists whose parsable dates are bare YYYY-MM-DD
   strings (the month such a date resolves into is the month written in it):
   calculateMonthlyBreakdown reports one line per month that has a record, with
   the number of distinct order ids and the sum of item_quantity of exactly the
   records of that month. *)
C3_MonthlyExact ==
  (call = "calculateMonthlyBreakdown" /\ \A i \in ParsableRows(orders) : Bare(orders[i].order_date))
    => {<<result[i].year, result[i].monthName, result[i].orders, result[i].items>> :
          i \in 1..Len(result)}
       = {<<mo[1], mo[2],
            Cardinality(OrderIdsOf(orders, RowsWrittenIn(orders, mo))),
            QuantityOver(orders, RowsWrittenIn(orders, mo))>> : mo \in WrittenMonths(orders)}

\* the rows that the engine puts in the month bucket `key`
BucketRows(os, zone, key) ==
  {i \in ParsableRows(os) : MonthKeyOf(NewDate(os[i].order_date).t, zone) = key}

NoRepeatedOrderId(os, S) ==
  \A i, j \in S : i # j => os[i].order_id # os[j].order_id

AnalyticsBuckets(os, zone) == SortBy(monthlyAnalysis(os, zone, <<>>), "EarlierKey")

(* C4, as stated: in every month bucket the reported unique-order count is at
   most the number of rows counted in the bucket, and equals it exactly when no
   order_id value repeats among the rows of the bucket. *)
C4_UniqueAtMostRows ==
  call = "generateComprehensiveAnalytics" =>
    \A i \in 1..Len(result.allMonthlyBreakdown) :
      LET bucket == AnalyticsBuckets(orders, tz)[i]
          unique == result.allMonthlyBreakdown[i].orders
      IN  /\ unique <= bucket.v.totalOrderCount
          /\ unique = bucket.v.totalOrderCount
               <=> NoRepeatedOrderId(orders, BucketRows(orders, tz, bucket.k))

(* C4, amended: in every month bucket the reported unique-order count is at most
   the number of rows of the bucket, and equals it exactly when every row of the
   bucket has an order id and no order id repeats among them; the ids compared
   are the order_id values in generateComprehensiveAnalytics and the trimmed
   order_id values in calculateMonthlyBreakdown. *)
C4_UniqueEqualsRowsIffAllDistinctIds ==
  /\ call = "generateComprehensiveAnalytics" =>
       \A i \in 1..Len(result.allMonthlyBreakdown) :
         LET bucket == AnalyticsBuckets(orders, tz)[i]
             rows == BucketRows(orders, tz, bucket.k)
             unique == result.allMonthlyBreakdown[i].orders
         IN  /\ bucket.v.totalOrderCount = Cardinality(rows)
             /\ unique <= bucket.v.totalOrderCount
             /\ unique = bucket.v.totalOrderCount
                  <=> /\ NoRepeatedOrderId(orders, rows)
                      /\ \A r \in rows : orders[r].order_id # EmptyStr
  /\ call = "calculateMonthlyBreakdown" =>
       \A i \in 1..Len(result) :
         LET rows == BucketRows(orders, tz, <<result[i].year, result[i].monthName>>)
         IN  /\ result[i].orders <= Cardinality(rows)
             /\ result[i].orders = Cardinality(rows)
                  <=> /\ \A r, q \in rows :
                           r # q => Trim(orders[r].order_id) # Trim(orders[q].order_id)
                      /\ \A r \in rows : Trim(orders[r].order_id) # EmptyStr

\* a bucket of two rows with different order_id values, one of them empty
C4_Witness ==
  /\ call = "generateComprehensiveAnalytics"
  /\ Len(result.allMonthlyBreakdown) = 1
  /\ result.allMonthlyBreakdown[1].orders = 1
  /\ AnalyticsBuckets(orders, tz)[1].v.totalOrderCount = 2
  /\ NoRepeatedOrderId(orders, 1..Len(orders))

(* C5: a record whose order date is empty or unparsable changes no temporal
   aggregation (month buckets, day lookup, specific-date lookup, date range,
   count of valid dates): each is what it is over the records without it; the
   record is still counted in the total row count and the total quantity. *)
C5_BadDatesExcludedButCounted ==
  /\ call = "calculateMonthlyBreakdown" =>
       result = calculateMonthlyBreakdown(WithoutBadDates(orders), tz)
  /\ call = "calculateSpecificDate" =>
       result = calculateSpecificDate(WithoutBadDates(orders), result.target)
  /\ call = "generateComprehensiveAnalytics" =>
       /\ result.allMonthlyBreakdown = allMonthlyBreakdown(WithoutBadDates(orders), tz)
       /\ result.dec31Details = dec31Details(WithoutBadDates(orders), tz)
       /\ result.validDates = Len(WithoutBadDates(orders))
       /\ result.totalOrders = Len(orders)
       /\ result.totalQuantity = QuantityOver(orders, 1..Len(orders))
  /\ call = "calculateDataSummary" =>
       /\ result.firstDate = calculateDataSummary(WithoutBadDates(orders)).firstDate
       /\ result.lastDate = calculateDataSummary(WithoutBadDates(orders)).lastDate
       /\ result.totalOrders = Len(orders)
       /\ result.totalItems = QuantityOver(orders, 1..Len(orders))

\* a month bucket reported over a list that also holds a record without a date
C5_Witness ==
  /\ call = "calculateMonthlyBreakdown"
  /\ Len(result) = 1
  /\ \E i \in 1..Len(orders) : ~Parsable(orders[i].order_date) /\ orders[i].item_quantity > 0
  /\ result[1].items < QuantityOver(orders, 1..Len(orders))

IsNumber(x) == x.kind = "number"

(* C6, as stated: called with zero records every aggregator returns a defined
   empty or zero result: no row, every total zero, every date an explicit
   marker, and no not-a-number value. *)
C6_EmptyInputDefined ==
  orders = <<>> =>
    /\ call \in {"calculateMarketplaceBreakdown", "calculateCountryBreakdown",
                 "calculateProductBreakdown", "calculateAttributeBreakdown",
                 "calculateMonthlyBreakdown"} => result = <<>>
    /\ call = "calculateSpecificDate" => ~result.found
    /\ call = "generateComprehensiveAnalytics" => ~result.available /\ result.totalOrders = 0
    /\ call = "calculateDataSummary" =>
         /\ result.totalOrders = 0 /\ result.totalItems = 0 /\ result.uniqueOrderIds = 0
         /\ result.firstDate.na /\ result.lastDate.na
    /\ call = "calculateStandardDeviation" =>
         /\ IsNumber(result.mean) /\ result.mean.v = 0
         /\ IsNumber(result.stdDev) /\ result.stdDev.v = 0

\* the rows whose date, as calculateSpecificDate resolves it, is the target date
RowsOn(os, targetDate) ==
  {i \in ParsableRows(os) : UTCCivil(NewDate(os[i].order_date).t) = targetDate}

(* C7, as stated: a specific-date query counts every record whose resolved date
   is the target date, with or without a delivery country; the country set holds
   the countries of those that have one, and a record without a country never
   turns the answer into 'no orders'. *)
C7_CountsRowsWithoutCountry ==
  (call = "calculateSpecificDate" /\ RowsOn(orders, result.target) # {}) =>
    /\ result.found
    /\ result.total = Cardinality(RowsOn(orders, result.target))
    /\ result.countries =
         {orders[i].delivery_country : i \in RowsOn(orders, result.target)} \ {EmptyStr}

(* C8, as stated: calculateSpecificDate answers 'No orders found for <target>'
   exactly when no record's resolved date is the target date. *)
C8_NoOrdersIffEmptyBucket ==
  call = "calculateSpecificDate" =>
    (~result.found <=> RowsOn(orders, result.target) = {})

AllPercents(analytics) ==
  {analytics.topAttributes[i].percent : i \in 1..Len(analytics.topAttributes)}
    \cup {analytics.topMarketplaces[i].percent : i \in 1..Len(analytics.topMarketplaces)}
    \cup {analytics.topCountries[i].percent : i \in 1..Len(analytics.topCountries)}

(* C9, as stated: when the total summed quantity of a dimension is zero, every
   percentage share reported for the dimension is 0, and no NaN or infinity is
   ever reported as a share. *)
C9_ZeroTotalZeroPercent ==
  call = "generateComprehensiveAnalytics" =>
    /\ \A p \in AllPercents(result) : IsNumber(p)
    /\ totalAttributeQuantity(orders) = 0 =>
         \A i \in 1..Len(result.topAttributes) : result.topAttributes[i].percent = Number(0)
    /\ totalMarketplaceQuantity(orders) = 0 =>
         \A i \in 1..Len(result.topMarketplaces) : result.topMarketplaces[i].percent = Number(0)
    /\ totalCountryQuantity(orders) = 0 =>
         \A i \in 1..Len(result.topCountries) : result.topCountries[i].percent = Number(0)

\* the shares of a listing, in tenths of a percent, lie in [0, 100] and add up
\* to 100 within 0.1 per listed group
SharesAddUp(listing) ==
  Len(listing) > 0 =>
    /\ \A i \in 1..Len(listing) :
         IsNumber(listing[i].percent) /\ listing[i].percent.v \in 0..1000
    /\ LET total == SeqSum([i \in 1..Len(listing) |-> listing[i].percent.v])
       IN  total >= 1000 - Len(listing) /\ total <= 1000 + Len(listing)

(* C10, as stated: in every breakdown that reports percentages each percentage
   lies in [0, 100] and the percentages of the listed groups sum to 100 within
   0.1 times the number of groups. *)
C10_PercentBounds ==
  call = "generateComprehensiveAnalytics" =>
    /\ SharesAddUp(result.topAttributes)
    /\ SharesAddUp(result.topMarketplaces)
    /\ SharesAddUp(result.topCountries)

(* ------------------------- ordering of listings ------------------------ *)

\* the first row of os whose field, trimmed, is the group key
FirstRow(os, field, key) ==
  Min({i \in 1..Len(os) : Truthy(os[i][field]) /\ Trim(os[i][field]) = key})

\* a listing, given by its keys and its summed quantities, descends by
\* quantity; groups of equal quantity keep the order in which their keys were
\* first encountered in os
RankedStable(keys, quantities, os, field) ==
  \A i, j \in 1..Len(keys) :
    i < j =>
      \/ quantities[i] > quantities[j]
      \/ /\ quantities[i] = quantities[j]
         /\ FirstRow(os, field, keys[i]) < FirstRow(os, field, keys[j])

KeysOf(listing) == [i \in 1..Len(listing) |-> listing[i].k]

(* C11, as stated: every breakdown that is emitted sorted by quantity lists its
   groups in descending order of summed quantity, and groups of equal quantity
   appear in the order in which their keys were first encountered in the
   input. *)
C11_DescendingStable ==
  /\ call = "calculateMarketplaceBreakdown" =>
       RankedStable(KeysOf(result), [i \in 1..Len(result) |-> result[i].v.items],
                    orders, "marketplace")
  /\ call = "calculateCountryBreakdown" =>
       RankedStable(KeysOf(result), [i \in 1..Len(result) |-> result[i].v.items],
                    orders, "delivery_country")
  /\ call = "calculateProductBreakdown" =>
       RankedStable(KeysOf(result), [i \in 1..Len(result) |-> result[i].v],
                    orders, "variation_name")
  /\ call = "calculateAttributeBreakdown" =>
       RankedStable(KeysOf(result), [i \in 1..Len(result) |-> result[i].v],
                    orders, "attribute")
  /\ call = "generateComprehensiveAnalytics" =>
       /\ RankedStable(KeysOf(result.topAttributes),
                       [i \in 1..Len(result.topAttributes) |-> result.topAttributes[i].units],
                       orders, "attribute")
       /\ RankedStable(KeysOf(result.topMarketplaces),
                       [i \in 1..Len(result.topMarketplaces) |-> result.topMarketplaces[i].units],
                       orders, "marketplace")
       /\ RankedStable(KeysOf(result.topCountries),
                       [i \in 1..Len(result.topCountries) |-> result.topCountries[i].units],
                       orders, "delivery_country")
       /\ RankedStable(KeysOf(result.topProducts),
                       [i \in 1..Len(result.topProducts) |-> result.topProducts[i].units],
                       orders, "variation_name")

\* two marketplaces of equal quantity, "B" met before "A" and listed first
C11_Witness ==
  /\ call = "calculateMarketplaceBreakdown"
  /\ Len(result) = 2
  /\ result[1].v.items = result[2].v.items
  /\ result[1].v.items > 0
  /\ result[1].k = Str("B")
  /\ result[2].k = Str("A")


\* the month of row a of a listing lies before the month of row b
EarlierMonth(a, b) ==
  a.year < b.year \/ (a.year = b.year /\ a.monthName < b.monthName)

\* the rows of a monthly listing are in strictly ascending order of time
Chronological(listing) ==
  \A i, j \in 1..Len(listing) : i < j => EarlierMonth(listing[i], listing[j])

(* C12, as stated: month buckets are emitted in chronologically ascending
   order, whatever the input; the monthly breakdown and the monthly listing of
   the analytics never emit a later month before an earlier one. *)
C12_MonthsChronological ==
  /\ call = "calculateMonthlyBreakdown" => Chronological(result)
  /\ call = "generateComprehensiveAnalytics" =>
       Chronological(result.allMonthlyBreakdown)


(* ----------------------- cross-dimensional tables ---------------------- *)

\* the record has the dimension: a month it is written in, or a categorical
\* value that is not empty once trimmed
HasDim(o, dim) ==
  IF dim = "month" THEN Bare(o.order_date) ELSE Trim(o[dim]) # EmptyStr

\* the value of the record in the dimension
DimOf(o, dim) ==
  IF dim = "month" THEN <<o.order_date.y, o.order_date.m>> ELSE Trim(o[dim])

\* the rows that have both dimensions
RowsWithBoth(os, outer, inner) ==
  {i \in 1..Len(os) : HasDim(os[i], outer) /\ HasDim(os[i], inner)}

\* the cells <<a, b, count, quantity>> that the records define
ExactCells(os, outer, inner) ==
  {LET a == DimOf(os[i], outer)
       b == DimOf(os[i], inner)
       rows == {j \in RowsWithBoth(os, outer, inner) :
                  DimOf(os[j], outer) = a /\ DimOf(os[j], inner) = b}
   IN  <<a, b, Cardinality(rows), QuantityOver(os, rows)>> :
     i \in RowsWithBoth(os, outer, inner)}

\* the cells <<a, b, count, quantity>> of a Map of Maps
CellsOf(table) ==
  UNION {{<<table[i].k, table[i].v[j].k, table[i].v[j].v.count, table[i].v[j].v.quantity>> :
            j \in 1..Len(table[i].v)} : i \in 1..Len(table)}

\* the cells of the emitted month x marketplace lines
MonthLineCells(listing) ==
  UNION {{<<<<listing[i].year, listing[i].monthName>>, listing[i].list[j].k,
            listing[i].list[j].v.count, listing[i].list[j].v.quantity>> :
            j \in 1..Len(listing[i].list)} : i \in 1..Len(listing)}

\* the cells of the emitted marketplace x country lines
MarketplaceLineCells(listing) ==
  UNION {{<<listing[i].marketplace, listing[i].list[j].k,
            listing[i].list[j].v.count, listing[i].list[j].v.quantity>> :
            j \in 1..Len(listing[i].list)} : i \in 1..Len(listing)}

\* the groups <<key, count, quantity>> that the records define in one dimension
ExactGroups(os, dim) ==
  {LET rows == {j \in 1..Len(os) : HasDim(os[j], dim) /\ DimOf(os[j], dim) = DimOf(os[i], dim)}
   IN  <<DimOf(os[i], dim), Cardinality(rows), QuantityOver(os, rows)>> :
     i \in {j \in 1..Len(os) : HasDim(os[j], dim)}}

GroupsOf(listing) ==
  {<<listing[i].k, listing[i].count, listing[i].units>> : i \in 1..Len(listing)}

(* C13, as stated: in each cross-dimensional table (month x marketplace,
   month x country, marketplace x country, attribute x marketplace) the count
   and the summed quantity of a cell (a, b) are those of exactly the records
   that have both dimensions, with the values a and b; a record that lacks one
   of the two dimensions is in no cell of the table and is still counted in the
   statistics of the dimension it has. *)
C13_CrossCellsExact ==
  call = "generateComprehensiveAnalytics" =>
    /\ MonthLineCells(result.monthlyMarketplaceBreakdown)
         = ExactCells(orders, "month", "marketplace")
    /\ CellsOf(monthlyCountryAnalysis(orders, tz, <<>>))
         = ExactCells(orders, "month", "delivery_country")
    /\ MarketplaceLineCells(result.marketplaceCountryBreakdown)
         = ExactCells(orders, "marketplace", "delivery_country")
    /\ CellsOf(attributeMarketplaceAnalysis(orders, <<>>))
         = ExactCells(orders, "attribute", "marketplace")
    /\ GroupsOf(result.topMarketplaces) = ExactGroups(orders, "marketplace")
    /\ GroupsOf(result.topCountries) = ExactGroups(orders, "delivery_country")


\* the entries of an inner list descend by summed quantity
InnerDescending(list) ==
  \A i, j \in 1..Len(list) : i < j => list[i].v.quantity >= list[j].v.quantity

\* the summed quantity of the entries of an inner list
ListTotal(list) == SeqSum([i \in 1..Len(list) |-> list[i].v.quantity])

(* C14, as stated: a cross-dimensional breakdown orders its outer keys
   chronologically when the outer key is a month and by descending total summed
   quantity when the outer key is a marketplace, and under every outer key the
   inner entries descend by summed quantity. *)
C14_CrossOrdering ==
  call = "generateComprehensiveAnalytics" =>
    /\ Chronological(result.monthlyMarketplaceBreakdown)
    /\ \A i \in 1..Len(result.monthlyMarketplaceBreakdown) :
         InnerDescending(result.monthlyMarketplaceBreakdown[i].list)
    /\ \A i, j \in 1..Len(result.marketplaceCountryBreakdown) :
         i < j => ListTotal(result.marketplaceCountryBreakdown[i].list)
                    >= ListTotal(result.marketplaceCountryBreakdown[j].list)
    /\ \A i \in 1..Len(result.marketplaceCountryBreakdown) :
         InnerDescending(result.marketplaceCountryBreakdown[i].list)


(* ---------------------------- malformed rows --------------------------- *)

TextFields == {"order_id", "variation_name", "attribute", "marketplace", "delivery_country"}

\* the canonical record has a quantity that is a non-negative integer, and
\* strings in its string fields
Canonical(o) ==
  /\ o.item_quantity \in Nat
  /\ \A field \in TextFields : o[field] # NumberValue
  /\ o.order_date # DateNumber

(* C15, as stated: for every input row of either naming convention,
   normalizeOrderData yields a canonical record whose item_quantity is a
   non-negative integer (0 when the quantity is missing or unparsable) and
   whose string fields are strings (the empty string when missing). *)
C15_CanonicalRecords ==
  status = "normalized" => \A i \in 1..Len(orders) : Canonical(orders[i])

\* the ordersData of the request is a list of record-like rows
RecordList(b) ==
  b.t = "array" /\ \A i \in 1..Len(b.rows) : b.rows[i].t = "object"

(* C16, as stated: for any list of record-like rows, however malformed the
   single records, normalization followed by every aggregator completes
   without throwing. *)
C16_NeverThrows ==
  RecordList(body) => status # "error"

\* the ordersData of the request is absent (undefined or null), which the
\* handler reads as the empty list
Absent(b) == b.t \in {"undefined", "null"}

(* C17, as stated: when the ordersData of a chat request is not a list of
   record-like objects the request fails: it is answered with an error, and no
   analytics are computed; and a request fails in the engine on no other
   input. *)
C17_FailsOnInvalidInputOnly ==
  /\ ~(RecordList(body) \/ Absent(body)) => status \in {"received", "error"}
  /\ status = "error" => ~(RecordList(body) \/ Absent(body))


(* ------------------------ purity and reentrancy ------------------------ *)

(* C18, as stated: an aggregator that is applied twice to the same record list
   returns the same output both times, and applying an aggregator does not
   modify the record list: in a step of a request that has its normalized
   records (a step that is not a switch to the other request) the records stay
   as they are, and when an aggregator has returned before, the step is the
   second application of it and leaves the result as it is. *)
C18_Deterministic ==
  [][(status = "normalized" /\ other' = other) =>
       /\ orders' = orders
       /\ call # "none" => (call' = call /\ result' = result)]_vars

\* the country breakdown of two records of one country has been returned, the
\* records are still the records of the request, and the breakdown of them is
\* the one that was returned
C18_Witness ==
  /\ status = "normalized"
  /\ call = "calculateCountryBreakdown"
  /\ Len(result) = 1
  /\ result[1].v.count = 2
  /\ orders = normalizeOrderData(body.rows)
  /\ result = calculateCountryBreakdown(orders)


\* the request of frame f holds what it would hold if it were served alone:
\* its records are the normalized rows of its own body, and the result of its
\* aggregator is the result of that aggregator on its own records
ServedAlone(f) ==
  f.status = "normalized" =>
    /\ f.orders = normalizeOrderData(f.body.rows)
    /\ f.call # "none" => f.result = Apply(f.call, f.orders, tz, f.result)

(* C19, as stated: two invocations of the engine that run interleaved on
   different record lists (two chat requests served at the same time) each
   produce exactly the result they would produce when run alone. *)
C19_Isolated ==
  /\ ServedAlone(Frame(body, status, orders, call, result))
  /\ ServedAlone(other)

\* both requests have applied the marketplace breakdown, each to its own
\* records, and the two results differ
C19_Witness ==
  /\ status = "normalized" /\ other.status = "normalized"
  /\ call = "calculateMarketplaceBreakdown"
  /\ other.call = "calculateMarketplaceBreakdown"
  /\ orders # other.orders
  /\ result # other.result
  /\ Len(result) > 0 /\ Len(other.result) > 0


(* ------------------------- standard deviation -------------------------- *)

\* n^2 times the sum of the squared deviations of the values from their mean
RECURSIVE ScaledDeviations(_, _, _)
ScaledDeviations(values, n, total) ==
  IF values = <<>> THEN 0
  ELSE (n * Head(values) - total) * (n * Head(values) - total)
         + ScaledDeviations(Tail(values), n, total)

(* C20, as stated: the standard deviation reported over the item quantities is
   the population standard deviation: the square root of the sum of the squared
   deviations from the mean divided by N, the number of values (not by N - 1);
   the reported value is that number rounded to two decimals. *)
C20_PopulationStdDev ==
  (call = "calculateStandardDeviation" /\ Len(orders) > 0) =>
    LET values == [i \in 1..Len(orders) |-> orders[i].item_quantity]
        n == Len(values)
        D == ScaledDeviations(values, n, SeqSum(values))
        r == result.stdDev.v
    IN  /\ IsNumber(result.stdDev)
        /\ r >= 0
        /\ r = 0 \/ (2 * r - 1) * (2 * r - 1) * n * n * n <= 40000 * D
        /\ 40000 * D < (2 * r + 1) * (2 * r + 1) * n * n * n

\* the quantities 0 and 2: the population standard deviation is 1.00 (the
\* sample standard deviation is 1.41)
C20_Witness ==
  /\ call = "calculateStandardDeviation"
  /\ Len(orders) = 2
  /\ orders[1].item_quantity = 0 /\ orders[2].item_quantity = 2
  /\ result.stdDev = Number(100)


(* ====================== properties of the chat request ================= *)

\* the history context of the prompt keeps chatHistory.slice(-3)
HistoryLimit == 3

\* the earlier exchanges among the messages sent to the language model
ForwardedExchanges == (Len(messages) - 2) \div 2

\* C21: the messages forwarded to the language model hold at most the last
\* three earlier exchanges, whatever the length of chatHistory
C21_HistoryLimited ==
  messages # <<>> =>
    /\ ForwardedExchanges <= HistoryLimit
    /\ SubSeq(messages, 2, Len(messages) - 1)
         = Forwarded(SubSeq(chatHistory, Max({1, Len(chatHistory) - HistoryLimit + 1}),
                            Len(chatHistory)))

\* the numbers of six or more digits written in s
LongNumbers(s) ==
  {SubSeq(s, i, DigitsEnd(s, i) - 1) :
     i \in {j \in 1..Len(s) : /\ IsDigit(s[j]) /\ (j = 1 \/ ~IsDigit(s[j - 1]))
                              /\ DigitsEnd(s, j) - j >= 6}}

OrderIds == {orders[i].order_id : i \in 1..Len(orders)}

AsksForOrder == Includes(ToLowerCase(message), OrderWord)

SaysNotFound == Includes(response.response, NotFoundWords)

\* C22 as stated: a message with the word 'order' and some number of six or
\* more digits that no record has as its order_id is answered 'not found'
C22_AnyNumberNotFound ==
  (response.status = 200 /\ AsksForOrder /\ LongNumbers(message) \ OrderIds # {})
    => SaysNotFound

\* C22: a message with the word 'order' whose first number of six or more
\* digits is the order_id of no record is answered with a text that
\* contains 'not found', whatever the language model answered
C22_FirstNumberNotFound ==
  (/\ response.status = 200 /\ AsksForOrder /\ LongNumbers(message) # {}
   /\ searchOrderId(message) \notin OrderIds)
    => SaysNotFound

\* the answer of the language model is replaced, and a citation is put before
\* the replacement
C22_Witness ==
  /\ response.status = 200 /\ AsksForOrder /\ LongNumbers(message) # {}
  /\ searchOrderId(message) \notin OrderIds
  /\ ~Includes(aiResponse.s, NotFoundWords)
  /\ StandsAt(response.response, MonthCitation, 1)
  /\ SaysNotFound

(* ========================= properties of OrdersTool ==================== *)

\* the rows that an upload was asked for: all the rows that the handler saw,
\* or those of them from row startRow to row endRow, in the order of the CSV
SelectedRows(u) ==
  LET picked == SelectSeq([k \in 1..Len(u.orders) |-> k],
                          LAMBDA k : u.dataRange = "all" \/ (u.startRow <= k /\ k <= u.endRow))
  IN  [j \in 1..Len(picked) |-> InsertRow(u.orders[picked[j]])]

RECURSIVE Flatten(_)
Flatten(batches) ==
  IF batches = <<>> THEN <<>> ELSE Head(batches) \o Flatten(Tail(batches))

\* C23: a successful upload has inserted the selected rows once each, in the
\* order of the input, in batches of at most 100 rows of which only the last
\* may be short, and reports their number; after a failed insert the table
\* holds the batches before it and no other
C23_BatchesPartition ==
  /\ upload.pc = "done" =>
       /\ Flatten(inserted) = SelectedRows(upload)
       /\ \A b \in 1..Len(inserted) :
            /\ Len(inserted[b]) \in 1..BatchSize
            /\ b < Len(inserted) => Len(inserted[b]) = BatchSize
       /\ upload.insertedCount = Len(SelectedRows(upload))
  /\ success.kind = "uploaded" =>
       upload.pc = "done" /\ success.count = Len(SelectedRows(upload))
  /\ upload.pc = "failed" =>
       /\ Len(inserted) = upload.i \div BatchSize
       /\ Flatten(inserted) = SubSeq(SelectedRows(upload), 1, upload.i)

\* a custom range of two full batches has been uploaded
C23_Witness ==
  /\ upload.pc = "done" /\ upload.dataRange = "custom" /\ upload.startRow = 2
  /\ Len(inserted) = 2 /\ success.kind = "uploaded" /\ success.count = 2 * BatchSize

\* an upload of three batches has failed at its second batch
C23_FailedWitness ==
  upload.pc = "failed" /\ Len(upload.rows) > 2 * BatchSize /\ Len(inserted) = 1

\* C28: for a custom range the number of rows announced in the form is the
\* number of rows that a successful upload inserts, and the upload is
\* rejected with 'Start row must be less than end row' exactly when the
\* announced number is 0
C28_AnnouncedIsInserted ==
  upload.dataRange = "custom" =>
    /\ upload.pc = "done" =>
         upload.insertedCount = AnnouncedRows(upload.startRow, upload.endRow)
    /\ upload.pc # "idle" =>
         (upload.pc = "rejected" <=> AnnouncedRows(upload.startRow, upload.endRow) = 0)

(* ========================== properties of ChatPage ===================== *)

Pending == request.pc # "idle"

AssistantMessages(list) == SelectSeq(list, LAMBDA m : m.role = "assistant")

\* C24: an accepted question is followed by exactly one assistant message of
\* its handler, the reply or the apology, appended when the request ends, and
\* by isLoading false: the loading lasts as long as the request, the step that
\* ends the request appends one such message, the steps of the handler
\* before it append none, and every request ends
C24_AnsweredOnce ==
  /\ [](Pending <=> isLoading)
  /\ [][/\ (Pending /\ ~Pending') =>
             /\ \E m \in {Apology} \cup {[role |-> "assistant", content |-> r] : r \in PageReplies} :
                  pageMessages' = Append(pageMessages, m)
             /\ ~isLoading'
        /\ (Pending /\ Pending' /\ request'.pc # request.pc) =>
             pageMessages' = pageMessages
        /\ (~Pending /\ Pending') =>
             AssistantMessages(pageMessages') = AssistantMessages(pageMessages)]_vars
  /\ (Pending ~> (~Pending /\ ~isLoading))

\* a chat with a question that was answered and a question that failed
C24_Witness ==
  /\ ~Pending /\ ~isLoading /\ Len(pageMessages) = 4
  /\ pageMessages[2].role = "assistant" /\ pageMessages[2] # Apology
  /\ pageMessages[4] = Apology

(* ================== agreement between the aggregators ================== *)

\* C25: the lines of calculateMonthlyBreakdown and the lines of the COMPLETE
\* MONTHLY BREAKDOWN of generateComprehensiveAnalytics over the same records
\* are the same: the same months, order counts and item totals
C25_MonthlyListsAgree ==
  status = "normalized" =>
    /\ call = "calculateMonthlyBreakdown" => result = allMonthlyBreakdown(orders, tz)
    /\ call = "generateComprehensiveAnalytics" =>
         result.allMonthlyBreakdown = calculateMonthlyBreakdown(orders, tz)

\* C26: the distinct counts of calculateDataSummary are those of the other
\* aggregators over the same records: the unique order ids of
\* generateComprehensiveAnalytics, and the numbers of groups of the country
\* and marketplace breakdowns, with empty and padded values among the records
C26_DistinctCountsAgree ==
  (status = "normalized" /\ call = "calculateDataSummary") =>
    /\ result.uniqueOrderIds = OrderIdCount(orders)
    /\ result.uniqueCountries = Len(calculateCountryBreakdown(orders))
    /\ result.uniqueMarketplaces = Len(calculateMarketplaceBreakdown(orders))

\* the date that calculateSpecificDate compares with its target, for the
\* record i: date.toISOString().split('T')[0]
MatchedDate(os, i) == UTCCivil(NewDate(os[i].order_date).t)

\* the records whose matched date lies in the month <<year, month>>
RowsMatchedIn(os, month) ==
  {i \in ParsableRows(os) : <<MatchedDate(os, i)[1], MatchedDate(os, i)[2]>> = month}

\* C27: a record that calculateSpecificDate matches to the date Y-M-D is
\* counted by calculateMonthlyBreakdown in the line of the month Y-M, on a
\* host of any time-zone offset: the line exists and its items are those of
\* the records matched to the dates of that month; a record dated by the
\* bare string 'Y-M-D' is counted in the line of Y-M
C27_DateAndMonthAgree ==
  (status = "normalized" /\ call = "calculateMonthlyBreakdown") =>
    \A i \in ParsableRows(orders) :
      /\ \E k \in 1..Len(result) :
           /\ <<result[k].year, result[k].monthName>>
                = <<MatchedDate(orders, i)[1], MatchedDate(orders, i)[2]>>
           /\ result[k].items
                = QuantityOver(orders, RowsMatchedIn(orders, <<result[k].year, result[k].monthName>>))
      /\ Bare(orders[i].order_date) =>
           \E k \in 1..Len(result) :
             <<result[k].year, result[k].monthName>>
               = <<orders[i].order_date.y, orders[i].order_date.m>>

====
